---- MODULE Spec2Model ----
(***************************************************************************)
(* koatty_typeorm: the declarative transaction manager of src/decorator.ts *)
(* (TransactionManager + TransactionAspect, first revision in the file).   *)
(*                                                                         *)
(* One invocation of TransactionAspect.run is a "call".  A call is an      *)
(* async function: every action below is one run-to-completion step of the *)
(* single-threaded event loop, from the resumption after one await to the  *)
(* next await.  The decorated body (the continuation `proceed`) is user    *)
(* code: it may invoke further decorated methods (calls whose ambient      *)
(* context is the AsyncLocalStorage store of the body), and it settles by  *)
(* returning a value or by throwing.  The QueryRunner (session) is the     *)
(* TypeORM collaborator: each of its operations is issued (appended to the *)
(* session's log) and later resolves or rejects.                           *)
(*                                                                         *)
(* What the model takes from the collaborators:                            *)
(*  - the session's flags follow TypeORM: isTransactionActive is set when  *)
(*    startTransaction resolves and cleared when commit or rollback        *)
(*    resolves; isReleased is set when release is called;                  *)
(*  - a body awaits the decorated calls it makes: it settles only when     *)
(*    they are over (they may run side by side, as under Promise.all);     *)
(*  - one top-level call is made per behaviour, except in SpecConcurrent;   *)
(*  - context ids are unique (a timestamp and a random string in the code); *)
(*  - the clock advances and the periodic scan cleanupExpiredContexts runs  *)
(*    in SpecReclaim only; elsewhere the clock stands still;                *)
(*  - the operations issued on one session settle in any order.            *)
(***************************************************************************)
EXTENDS Integers, Sequences, FiniteSets, TLC

\* ---------------------------------------------------------------- bounds
\* Several applications are analysed, each within its own bounds: calls is the
\* number of invocations of TransactionAspect.run in one behaviour, faults
\* the number of collaborator operations (session operations, hooks, the
\* datasource lookup) that fail in it, tuned the number of option fields
\* (isolationLevel, readOnly, timeout, each hook) that the decorator options
\* of its calls set besides propagation.
\* Spec: a decorated method that calls another one, any propagations
MaxCalls == 2
MaxFaults == 2
\* SpecRoot: one decorated method, any options
MaxRootCalls == 1
MaxRootFaults == 2
MaxRootTuned == 2
\* SpecNested: a REQUIRED method whose body nests NESTED scopes
MaxNestedCalls == 3
MaxNestedFaults == 1
\* SpecStats: as Spec, with statistics reset or switched off by the application
MaxStatsCalls == 2
MaxStatsFaults == 1
\* SpecSource: as Spec, with a datasource that may not be initialised
MaxSourceCalls == 2
MaxSourceFaults == 1
\* SpecConcurrent: top-level calls that run side by side
MaxConcurrentCalls == 2
MaxConcurrentFaults == 1
\* SpecTimed: a REQUIRED method with tuned options that nests NESTED scopes
MaxTimedCalls == 2
MaxTimedFaults == 1
MaxTimedTuned == 1
\* SpecManager: an application that uses the manager's own interface; the
\* timers it starts, the objects it gets, the durations it records
MaxTimers == 3
MaxReturned == 2
MaxUpdates == 2
\* SpecDepth: REQUIRED, REQUIRES_NEW and NESTED methods that call one another
\* under a configured nesting limit
MaxDepthCalls == 3
MaxDepthFaults == 0
\* SpecNumbers: an application that records durations and resets the statistics
MaxNumbersUpdates == 3
\* SpecDefaults: decorated methods invoked repeatedly under changing defaults
\* SpecReclaim: transactions that outlive maxContextAge while the scan runs
MaxReclaimCalls == 2
MaxReclaimFaults == 1
MaxReclaimTuned == 1

MaxDefaultsCalls == 2
MaxDefaultsFaults == 0
MaxDefaultsTuned == 1

\* ---------------------------------------------------------------- values
Undefined == "undefined"
\* what a body may resolve with: no value, or some value
Results == {Undefined, "result"}

\* an isolation level is the string the user writes, kept as its sequence of
\* tokens ("_" is the underscore character); <<>> is "not set"
NoIsolation == <<>>
IsolationLevels == {<<"READ", "_", "COMMITTED">>, <<"SERIALIZABLE">>}

Propagations ==
  {"UNSET", "REQUIRED", "REQUIRES_NEW", "SUPPORTS", "NOT_SUPPORTED", "NEVER",
   "NESTED", "MANDATORY"}

HookNames == {"beforeCommit", "afterCommit", "beforeRollback", "afterRollback"}

\* timeout in ms; 0 stands for "not set"
Timeouts == {0, 50}

TransactionOptions ==
  [propagation : Propagations,
   isolationLevel : {NoIsolation} \cup IsolationLevels,
   readOnly : BOOLEAN,
   timeout : Timeouts,
   hooks : SUBSET HookNames]

\* the number of option fields a decorator sets besides propagation
Tuned(o) ==
  (IF o.isolationLevel # NoIsolation THEN 1 ELSE 0)
  + (IF o.readOnly THEN 1 ELSE 0)
  + (IF o.timeout # 0 THEN 1 ELSE 0)
  + Cardinality(o.hooks)

PlainOptions(menu) ==
  [propagation : menu, isolationLevel : {NoIsolation}, readOnly : {FALSE},
   timeout : {0}, hooks : {{}}]

\* o with one more option field set
TuneOne(o) ==
  {[o EXCEPT !.isolationLevel = l] :
     l \in IF o.isolationLevel = NoIsolation THEN IsolationLevels ELSE {}}
  \cup (IF o.readOnly THEN {} ELSE {[o EXCEPT !.readOnly = TRUE]})
  \cup {[o EXCEPT !.timeout = t] : t \in IF o.timeout = 0 THEN Timeouts \ {0} ELSE {}}
  \cup {[o EXCEPT !.hooks = @ \cup {h}] : h \in HookNames \ o.hooks}

\* the decorator options with a propagation of the menu and at most k other
\* fields set
RECURSIVE OptionChoices(_, _)
OptionChoices(menu, k) ==
  IF k <= 0 THEN PlainOptions(menu)
  ELSE LET fewer == OptionChoices(menu, k - 1)
       IN fewer \cup UNION {TuneOne(o) : o \in fewer}

\* errors: one record shape for all of them
Err(kind, a, b) == [kind |-> kind, a |-> a, b |-> b]
NoErr == Err("none", 0, 0)
BodyError(c) == Err("body", c, 0)
TimeoutError(ms, cid) == Err("Transaction timeout", ms, cid)
NeverError == Err("Transaction not allowed (NEVER propagation)", 0, 0)
MandatoryError == Err("Transaction required (MANDATORY propagation)", 0, 0)
NestingError(max) == Err("nesting depth exceeded", max, 0)
DataSourceError == Err("datasource not found", 0, 0)
OpError(op) == Err(op, 0, 0)
HookError(h) == Err(h, 0, 0)

\* entries of a session's log: the operations issued on it, in order
Entry(op, text, cid, n) == [op |-> op, text |-> text, cid |-> cid, n |-> n]
EConnect == Entry("connect", <<>>, 0, 0)
EBegin(arg) == Entry("startTransaction", arg, 0, 0)
ECommit == Entry("commitTransaction", <<>>, 0, 0)
ERollback == Entry("rollbackTransaction", <<>>, 0, 0)
ERelease == Entry("release", <<>>, 0, 0)
EReadOnly == Entry("query", <<"SET", " ", "TRANSACTION", " ", "READ", " ", "ONLY">>, 0, 0)
ESavepoint(sp) == Entry("query", <<"SAVEPOINT">>, sp.cid, sp.n)
EReleaseSp(sp) == Entry("query", <<"RELEASE", " ", "SAVEPOINT">>, sp.cid, sp.n)
ERollbackSp(sp) == Entry("query", <<"ROLLBACK", " ", "TO", " ", "SAVEPOINT">>, sp.cid, sp.n)
\* not session operations, but recorded in the log of the session that is
\* current where they run, to order them against the session's operations
EBody(c) == Entry("body", <<>>, c, 0)
EHook(h, c) == Entry("hook", <<h>>, c, 0)
\* ... and a hook that rejected
EHookThrew(h, c) == Entry("hook", <<h>>, c, 1)

NoSavepoint == [cid |-> 0, n |-> 0]

\* a number that need not be whole (a quotient), in lowest terms
RECURSIVE GCD(_, _)
GCD(a, b) == IF b = 0 THEN a ELSE GCD(b, a % b)

Fraction(n, d) ==
  LET g == GCD(n, d) IN [num |-> n \div g, den |-> d \div g]

\* the keys of a TransactionStats object; the running sum is internal
StatsKeys ==
  {"totalTransactions", "successfulTransactions", "failedTransactions",
   "averageDuration", "longestTransaction", "shortestTransaction"}

RunningSum == "_totalDuration"

\* the initial value of TransactionManager.stats
InitialStats ==
  [k \in StatsKeys |-> IF k = "averageDuration" THEN Fraction(0, 1) ELSE 0]

\* the object resetStats() installs
StatsZero ==
  [k \in StatsKeys \cup {RunningSum} |->
     IF k = "averageDuration" THEN Fraction(0, 1) ELSE 0]

\* the three counters of a stats object
Counters(s) ==
  [totalTransactions |-> s.totalTransactions,
   successfulTransactions |-> s.successfulTransactions,
   failedTransactions |-> s.failedTransactions]

\* maxContextAge of the initial globalConfig: 30 * 60 * 1000
DefaultMaxContextAge == 1800000

\* the getter MAX_TRANSACTION_DURATION: globalConfig.maxContextAge || 30 * 60 * 1000
MAX_TRANSACTION_DURATION(maxContextAge) ==
  IF maxContextAge # 0 THEN maxContextAge ELSE DefaultMaxContextAge

\* a string property that is not set or empty counts as not given
Falsy(v) == v \in {Undefined, ""}

\* options.type: unset, empty, or the name of a driver
DatabaseTypes ==
  {Undefined, "", "mysql", "postgres", "mongodb", "sqlite", "better-sqlite3",
   "capacitor"}

\* the options validateDatabaseOptions reads
DataSourceOptions ==
  [type : DatabaseTypes,
   host : {Undefined, "", "127.0.0.1"},
   url : {Undefined, "", "mongodb://localhost:27017/test"},
   database : {Undefined, "", "test"}]

\* validateDatabaseOptions(options): the error it throws, or "returned"
ValidateDatabaseOptionsOf(options) ==
  IF Falsy(options.type) THEN "type is required"
  ELSE IF options.type # "sqlite" /\ options.type # "better-sqlite3"
       THEN IF Falsy(options.host) /\ Falsy(options.url)
            THEN "host or url is required"
            ELSE IF Falsy(options.database) /\ Falsy(options.url)
                 THEN "database or url is required"
                 ELSE "returned"
       ELSE "returned"

\* cleanupInterval of the initial configuration: 5 * 60 * 1000 ms
DefaultCleanupInterval == 300000

\* the getter CLEANUP_INTERVAL: globalConfig.cleanupInterval || 5 * 60 * 1000
CLEANUP_INTERVAL(cleanupInterval) ==
  IF cleanupInterval # 0 THEN cleanupInterval ELSE DefaultCleanupInterval

\* startCleanupTimer: setInterval(..., CLEANUP_INTERVAL) makes a new timer
StartCleanupTimer(ts, cleanupInterval) ==
  Append(ts, [interval |-> CLEANUP_INTERVAL(cleanupInterval), cleared |-> FALSE])

\* stopCleanupTimer: clearInterval(cleanupTimer) when the handle is set
StopCleanupTimerOf(ts, handle) ==
  IF handle # 0 THEN [ts EXCEPT ![handle].cleared = TRUE] ELSE ts

\* getStats(): a new object with the keys of s but the running sum
GetStatsObject(s) == [k \in DOMAIN s \ {RunningSum} |-> s[k]]

\* what app.getMetaData(dataSourceName || 'DB') yields: nothing (or a
\* configuration without a dataSource), a DataSource that is not initialised,
\* or an initialised one
DataSources == {"absent", "uninitialised", "initialised"}

\* the test `dbConfig && dbConfig.dataSource` of prepareTransactionContext
Found(dataSource) == dataSource # "absent"

\* DataSource.isInitialized
IsInitialized(dataSource) == dataSource = "initialised"

\* an application whose datasources, when registered, are initialised
WorkingSources == {"absent", "initialised"}

\* ---------------------------------------------------------------- state
VARIABLES
  calls,         \* the invocations of TransactionAspect.run, in start order
  ctxs,          \* the TransactionContext objects created, by creation order
  qrs,           \* the QueryRunners (sessions) created, by creation order
  contexts,      \* TransactionManager.contexts: ids of registered contexts
  stats,         \* TransactionManager.stats
  globalConfig,  \* TransactionManager.globalConfig
  faults,        \* collaborator failures so far
  recorded,      \* the durations passed to updateStats since the statistics
                 \* were last reset (or since the start), in order
  timers,        \* the interval timers startCleanupTimer has created, in
                 \* creation order, each cleared or still scheduled
  cleanupTimer,  \* TransactionManager.cleanupTimer: the timer created last
  returned,      \* the objects getStats() and getConfig() have handed out
  dbOptions,     \* the options validateDatabaseOptions is called with
  validation,    \* how that call ended: not made yet, returned, or the error
  now,           \* Date.now(), in ms since the start
  reclaims,      \* the promise chains cleanupExpiredContexts has started, one
                 \* for each session it rolls back: the operation the chain
                 \* waits for, or done
  decorated,     \* the options objects given to Transactional(), one for each
                 \* decorated method invoked so far: as written, and as it
                 \* is now
  scope          \* what the application under analysis does: the number of
                 \* calls, the propagations its decorators use, the failures
                 \* of its collaborators, the option fields it sets, the
                 \* states its datasources are in, the number of top-level
                 \* calls, whether it reconfigures the manager while it runs,
                 \* the number of durations it records itself

vars ==
  <<calls, ctxs, qrs, contexts, stats, globalConfig, faults, recorded, timers,
    cleanupTimer, returned, dbOptions, validation, now, reclaims, decorated,
    scope>>

\* the variables only the manager's own interface changes
manager == <<timers, cleanupTimer, returned>>

\* the variables of the plugin's bootstrap
plugin == <<dbOptions, validation>>

\* the clock and the chains of the scan
reclaimer == <<now, reclaims>>

\* the part of the state one call's step can change, as one value
St ==
  [calls |-> calls, ctxs |-> ctxs, qrs |-> qrs, contexts |-> contexts,
   stats |-> stats, faults |-> faults, recorded |-> recorded, now |-> now]

Assign(st) ==
  \E s \in {st} :
    /\ calls' = s.calls
    /\ ctxs' = s.ctxs
    /\ qrs' = s.qrs
    /\ contexts' = s.contexts
    /\ stats' = s.stats
    /\ faults' = s.faults
    /\ recorded' = s.recorded
    /\ UNCHANGED <<globalConfig, scope, manager, plugin, reclaimer>>

\* a step that leaves the options objects alone
Becomes(st) == Assign(st) /\ UNCHANGED decorated

\* no configuration is validated
Unvalidated ==
  /\ dbOptions = [type |-> Undefined, host |-> Undefined, url |-> Undefined,
                  database |-> Undefined]
  /\ validation = "not called"

Start ==
  /\ calls = <<>>
  /\ ctxs = <<>>
  /\ qrs = <<>>
  /\ contexts = {}
  /\ stats = InitialStats
  /\ globalConfig = [defaultTimeout |-> 0, defaultIsolationLevel |-> NoIsolation,
                     maxNestedDepth |-> 10, enableStats |-> TRUE,
                     cleanupInterval |-> DefaultCleanupInterval,
                     maxContextAge |-> DefaultMaxContextAge]
  /\ faults = 0
  /\ recorded = <<>>
  /\ timers = StartCleanupTimer(<<>>, DefaultCleanupInterval)
  /\ cleanupTimer = 1
  /\ returned = <<>>
  /\ now = 0
  /\ reclaims = <<>>
  /\ decorated = <<>>

Init ==
  /\ Start
  /\ Unvalidated
  /\ scope = [calls |-> MaxCalls, faults |-> MaxFaults, tuned |-> 0,
              menu |-> Propagations, sources |-> WorkingSources, roots |-> 1,
              reconfigures |-> FALSE, updates |-> 0]

InitRoot ==
  /\ Start
  /\ Unvalidated
  /\ scope = [calls |-> MaxRootCalls, faults |-> MaxRootFaults,
              tuned |-> MaxRootTuned, menu |-> Propagations,
              sources |-> WorkingSources, roots |-> 1,
              reconfigures |-> FALSE, updates |-> 0]

\* an application that nests savepoint scopes under one root transaction
NestedMenu == {"REQUIRED", "NESTED"}

InitNested ==
  /\ Start
  /\ Unvalidated
  /\ scope = [calls |-> MaxNestedCalls, faults |-> MaxNestedFaults,
              tuned |-> 0, menu |-> NestedMenu,
              sources |-> WorkingSources, roots |-> 1,
              reconfigures |-> FALSE, updates |-> 0]

InitStats ==
  /\ Start
  /\ Unvalidated
  /\ scope = [calls |-> MaxStatsCalls, faults |-> MaxStatsFaults,
              tuned |-> 0, menu |-> Propagations, sources |-> WorkingSources, roots |-> 1,
              reconfigures |-> FALSE, updates |-> 0]

\* an application that serves requests side by side: several top-level calls
InitConcurrent ==
  /\ Start
  /\ Unvalidated
  /\ scope = [calls |-> MaxConcurrentCalls, faults |-> MaxConcurrentFaults,
              tuned |-> 0, menu |-> Propagations, sources |-> WorkingSources,
              roots |-> MaxConcurrentCalls,
              reconfigures |-> FALSE, updates |-> 0]

\* an application whose root transaction has a timeout and nests savepoint
\* scopes
InitTimed ==
  /\ Start
  /\ Unvalidated
  /\ scope = [calls |-> MaxTimedCalls, faults |-> MaxTimedFaults,
              tuned |-> MaxTimedTuned, menu |-> NestedMenu,
              sources |-> WorkingSources, roots |-> 1,
              reconfigures |-> FALSE, updates |-> 0]

\* the bootstrap is given any configuration
InitValidate ==
  /\ Start
  /\ dbOptions \in DataSourceOptions
  /\ validation = "not called"
  /\ scope = [calls |-> 0, faults |-> 0, tuned |-> 0, menu |-> {},
              sources |-> {}, roots |-> 0, reconfigures |-> FALSE, updates |-> 0]

\* an application that sets the nesting limit and nests new transactions and
\* savepoint scopes
DepthMenu == {"REQUIRED", "REQUIRES_NEW", "NESTED"}

InitDepth ==
  /\ Start
  /\ Unvalidated
  /\ scope = [calls |-> MaxDepthCalls, faults |-> MaxDepthFaults, tuned |-> 0,
              menu |-> DepthMenu, sources |-> WorkingSources, roots |-> 1,
              reconfigures |-> FALSE, updates |-> 0]

\* an application whose transactions run long: a transaction and a new one
\* inside it, with or without a timeout, while time passes and the scan runs
ReclaimMenu == {"REQUIRES_NEW"}

InitReclaim ==
  /\ Start
  /\ Unvalidated
  /\ scope = [calls |-> MaxReclaimCalls, faults |-> MaxReclaimFaults,
              tuned |-> MaxReclaimTuned, menu |-> ReclaimMenu, sources |-> WorkingSources,
              roots |-> 1, reconfigures |-> FALSE, updates |-> 0]

\* an application that records the durations of its own work
InitNumbers ==
  /\ Start
  /\ Unvalidated
  /\ scope = [calls |-> 0, faults |-> 0, tuned |-> 0, menu |-> {},
              sources |-> {}, roots |-> 0, reconfigures |-> FALSE,
              updates |-> MaxNumbersUpdates]

\* an application that uses the manager's interface and makes no calls
InitManager ==
  /\ Start
  /\ Unvalidated
  /\ scope = [calls |-> 0, faults |-> 0, tuned |-> 0, menu |-> {},
              sources |-> {}, roots |-> 0, reconfigures |-> TRUE,
              updates |-> MaxUpdates]

\* an application that changes the global defaults while it runs and invokes
\* its decorated methods again and again
DefaultsMenu == {"REQUIRED"}

InitDefaults ==
  /\ Start
  /\ Unvalidated
  /\ scope = [calls |-> MaxDefaultsCalls, faults |-> MaxDefaultsFaults,
              tuned |-> MaxDefaultsTuned, menu |-> DefaultsMenu,
              sources |-> WorkingSources, roots |-> MaxDefaultsCalls,
              reconfigures |-> TRUE, updates |-> 0]

\* an application whose datasource may be registered before it is initialised
InitSource ==
  /\ Start
  /\ Unvalidated
  /\ scope = [calls |-> MaxSourceCalls, faults |-> MaxSourceFaults,
              tuned |-> 0, menu |-> Propagations, sources |-> DataSources,
              roots |-> 1,
              reconfigures |-> FALSE, updates |-> 0]

\* ------------------------------------------------- collaborators: session
\* QueryRunner.<op>() is called: the operation is issued on session q
Issue(st, q, e) == [st EXCEPT !.qrs[q].log = Append(@, e)]

\* DataSource.createQueryRunner(): a fresh session
NewQueryRunner == [log |-> <<>>, isTransactionActive |-> FALSE, isReleased |-> FALSE]

\* a collaborator operation fails: counted against MaxFaults
Fault(st, n) == [st EXCEPT !.faults = @ + n]

\* ------------------------------------------------- TransactionManager
\* TransactionManager.generateContextId: unique within the process
GenerateContextId(st) == Len(st.ctxs) + 1

\* an updateStats that takes the minimum with the stored shortest duration
\* from the first transaction on
UpdateStatsOfNoFirst(s, duration, success) ==
  LET effectiveDuration == IF duration > 1 THEN duration ELSE 1
      total == s.totalTransactions + 1
      sum == (IF RunningSum \in DOMAIN s THEN s[RunningSum] ELSE 0) + effectiveDuration
  IN [k \in DOMAIN s \cup {RunningSum} |->
        CASE k = "totalTransactions" -> total
          [] k = "successfulTransactions" ->
               IF success THEN s[k] + 1 ELSE s[k]
          [] k = "failedTransactions" ->
               IF success THEN s[k] ELSE s[k] + 1
          [] k = RunningSum -> sum
          [] k = "averageDuration" -> Fraction(sum, total)
          [] k = "longestTransaction" ->
               IF effectiveDuration > s[k] THEN effectiveDuration ELSE s[k]
          [] k = "shortestTransaction" ->
               IF effectiveDuration < s[k] THEN effectiveDuration ELSE s[k]
          [] OTHER -> s[k]]

\* TransactionManager.updateStats(duration, success) on the stats object s
UpdateStatsOf(s, duration, success) ==
  LET effectiveDuration == IF duration > 1 THEN duration ELSE 1
      total == s.totalTransactions + 1
      sum == (IF RunningSum \in DOMAIN s THEN s[RunningSum] ELSE 0) + effectiveDuration
  IN [k \in DOMAIN s \cup {RunningSum} |->
        CASE k = "totalTransactions" -> total
          [] k = "successfulTransactions" ->
               IF success THEN s[k] + 1 ELSE s[k]
          [] k = "failedTransactions" ->
               IF success THEN s[k] ELSE s[k] + 1
          [] k = RunningSum -> sum
          [] k = "averageDuration" -> Fraction(sum, total)
          [] k = "longestTransaction" ->
               IF effectiveDuration > s[k] THEN effectiveDuration ELSE s[k]
          [] k = "shortestTransaction" ->
               IF total = 1 THEN effectiveDuration
               ELSE IF effectiveDuration < s[k] THEN effectiveDuration ELSE s[k]
          [] OTHER -> s[k]]

UpdateStats(st, duration, success) ==
  [st EXCEPT !.stats = UpdateStatsOf(@, duration, success),
             !.recorded = Append(@, duration)]

\* Date.now() - startTime, startTime being the one of the context the call
\* created, or the time the call was made when it created none
Elapsed(st, c) ==
  st.now - (IF st.calls[c].ctx # 0 THEN st.ctxs[st.calls[c].ctx].startTime
            ELSE st.calls[c].startTime)

\* call c calls TransactionManager.updateStats(duration, success)
UpdateStatsBy(st, c, success) ==
  [UpdateStats(st, Elapsed(st, c), success)
     EXCEPT !.calls[c].counted = Append(@, success)]

\* Array.prototype.indexOf: 1-based here, 0 when absent
IndexOf(seq, x) ==
  IF \E i \in 1..Len(seq) : seq[i] = x
  THEN CHOOSE i \in 1..Len(seq) : seq[i] = x /\ \A j \in 1..(i - 1) : seq[j] # x
  ELSE 0

\* the savepoint name `sp_${contextId}_${savepoints.length}`
SavepointName(context) == [cid |-> context.contextId, n |-> Len(context.savepoints)]

\* rollbackToSavepoint, after its query resolved: splice(index + 1)
RollbackToSavepointStack(savepoints, sp) ==
  LET index == IndexOf(savepoints, sp)
  IN IF index >= 1 THEN SubSeq(savepoints, 1, index) ELSE savepoints

\* releaseSavepoint, after its query resolved: splice(index, 1)
ReleaseSavepointStack(savepoints, sp) ==
  LET index == IndexOf(savepoints, sp)
  IN IF index >= 1
     THEN SubSeq(savepoints, 1, index - 1) \o SubSeq(savepoints, index + 1, Len(savepoints))
     ELSE savepoints

\* an isolation level passed on as the user wrote it
ReplaceNothing(level) == level

\* isolationLevel.replace(/_/g, ' ')
ReplaceUnderscores(level) ==
  [i \in DOMAIN level |-> IF level[i] = "_" THEN " " ELSE level[i]]

\* TransactionAspect.run, lines 496-501: unset fields take the global default
ApplyDefaults(o, cfg) ==
  [o EXCEPT
     !.timeout = IF @ = 0 /\ cfg.defaultTimeout # 0 THEN cfg.defaultTimeout ELSE @,
     !.isolationLevel =
        IF @ = NoIsolation /\ cfg.defaultIsolationLevel # NoIsolation
        THEN cfg.defaultIsolationLevel ELSE @]

\* ------------------------------------------------- the call's continuation
\* the call returns to its caller: the promise of run() settles
Finish(st, c) ==
  [st EXCEPT !.calls[c].pc = "done",
             !.calls[c].outcome =
                IF st.calls[c].err = NoErr THEN "returned" ELSE "threw",
             !.calls[c].ret =
                IF st.calls[c].err = NoErr THEN st.calls[c].val ELSE Undefined]

Throw(st, c, e) == Finish([st EXCEPT !.calls[c].err = e], c)

\* a current context kept in one module-level variable: starting a body
\* replaces what every running body observes
StartBodyShared(st, c, store, mode) ==
  LET st1 == [st EXCEPT !.calls =
                [d \in DOMAIN st.calls |->
                   IF d = c
                   THEN [st.calls[d] EXCEPT !.pc = "body", !.mode = mode,
                                            !.body = "running", !.runs = @ + 1,
                                            !.store = store]
                   ELSE IF st.calls[d].body = "running"
                        THEN [st.calls[d] EXCEPT !.store = store]
                        ELSE st.calls[d]]]
  IN IF store = 0 THEN st1 ELSE Issue(st1, st.ctxs[store].queryRunner, EBody(c))

\* proceed() is invoked: the body starts under the given store
StartBody(st, c, store, mode) ==
  LET st1 == [st EXCEPT !.calls[c].pc = "body",
                        !.calls[c].mode = mode,
                        !.calls[c].body = "running",
                        !.calls[c].runs = @ + 1,
                        !.calls[c].store = store]
  IN IF store = 0 THEN st1 ELSE Issue(st1, st.ctxs[store].queryRunner, EBody(c))

\* a hook of the call's options, when set, runs now; F names the hooks that
\* throw in this step
RunHook(st, c, h, F) ==
  IF h \in st.calls[c].options.hooks
  THEN LET q == st.ctxs[st.calls[c].ctx].queryRunner
       IN IF h \in F THEN Fault(Issue(st, q, EHookThrew(h, c)), 1)
          ELSE Issue(st, q, EHook(h, c))
  ELSE st

HookThrows(st, c, h, F) == h \in st.calls[c].options.hooks /\ h \in F

\* a cleanupTransaction that releases the session only after a commit
CleanupTransactionOnSuccess(st, c, success) ==
  LET st1 == UpdateStatsBy(st, c, success)
      q == st.ctxs[st.calls[c].ctx].queryRunner
  IN IF success /\ ~st1.qrs[q].isReleased
     THEN [Issue(st1, q, ERelease) EXCEPT !.qrs[q].isReleased = TRUE,
                                          !.calls[c].pc = "release"]
     ELSE Finish(st1, c)

\* cleanupTransaction up to its await
CleanupTransaction(st, c, success) ==
  LET st1 == UpdateStatsBy(st, c, success)
      q == st.ctxs[st.calls[c].ctx].queryRunner
  IN IF ~st1.qrs[q].isReleased
     THEN [Issue(st1, q, ERelease) EXCEPT !.qrs[q].isReleased = TRUE,
                                          !.calls[c].pc = "release"]
     ELSE Finish(st1, c)

\* rollbackTransaction from the afterRollback hook on, then the finally block
AfterRollback(st, c, F) ==
  CleanupTransaction(RunHook(st, c, "afterRollback", F), c, FALSE)

\* a rollbackTransaction that runs its beforeRollback hook after the rollback
\* was issued
RollbackTransactionHookLate(st, c, e, F) ==
  LET st0 == [st EXCEPT !.calls[c].err = e]
      q == st.ctxs[st.calls[c].ctx].queryRunner
  IN IF st0.qrs[q].isTransactionActive
     THEN [RunHook(Issue(st0, q, ERollback), c, "beforeRollback", F)
             EXCEPT !.calls[c].pc = "rollback"]
     ELSE AfterRollback(RunHook(st0, c, "beforeRollback", F), c, F)

\* the catch block of createNewTransaction, entered with error e
RollbackTransaction(st, c, e, F) ==
  LET st1 == RunHook([st EXCEPT !.calls[c].err = e], c, "beforeRollback", F)
      q == st.ctxs[st.calls[c].ctx].queryRunner
  IN IF st1.qrs[q].isTransactionActive
     THEN [Issue(st1, q, ERollback) EXCEPT !.calls[c].pc = "rollback"]
     ELSE AfterRollback(st1, c, F)

\* a beforeCommit hook guarded like the other hooks: its failure is logged
\* and the body runs
ExecuteInTransactionHookSwallowed(st, c, F) ==
  LET st1 == RunHook(st, c, "beforeCommit", F)
      x == st.calls[c].ctx
  IN StartBody([st1 EXCEPT !.contexts = @ \cup {x},
                           !.calls[c].timer =
                              IF st.calls[c].options.timeout > 0
                              THEN "armed" ELSE "off"],
               c, x, "root")

\* connectAndStartTransaction from the beforeCommit hook on, then
\* executeInTransaction up to the await of the body
ExecuteInTransaction(st, c, F) ==
  LET st1 == RunHook(st, c, "beforeCommit", F)
      x == st.calls[c].ctx
  IN IF HookThrows(st, c, "beforeCommit", F)
     THEN RollbackTransaction(st1, c, HookError("beforeCommit"), F)
     ELSE StartBody([st1 EXCEPT !.contexts = @ \cup {x},
                                !.calls[c].timer =
                                   IF st.calls[c].options.timeout > 0
                                   THEN "armed" ELSE "off"],
                    c, x, "root")

\* a createNewTransaction that borrows the session of the parent context
CreateNewTransactionOnParentSession(st, c, dataSource) ==
  IF ~Found(dataSource)
  THEN Throw(Fault(st, 1), c, DataSourceError)
  ELSE
    LET parent == st.calls[c].cur
        q == IF parent # 0 THEN st.ctxs[parent].queryRunner ELSE Len(st.qrs) + 1
        x == Len(st.ctxs) + 1
        context ==
          [queryRunner |-> q,
           dataSource |-> dataSource,
           isActive |-> TRUE,
           startTime |-> st.now,
           options |-> st.calls[c].options,
           contextId |-> GenerateContextId(st),
           parentContext |-> parent,
           savepoints |-> <<>>,
           depth |-> IF parent # 0 THEN st.ctxs[parent].depth + 1 ELSE 0]
        st1 == [st EXCEPT !.qrs = IF parent # 0 THEN @ ELSE Append(@, NewQueryRunner),
                          !.ctxs = Append(@, context),
                          !.calls[c].ctx = x,
                          !.calls[c].pc = "connect"]
    IN Issue(st1, q, EConnect)

\* prepareTransactionContext, then connectAndStartTransaction up to its
\* first await; dataSource: what app.getMetaData yields for the
\* datasource name of the options
CreateNewTransaction(st, c, dataSource) ==
  IF ~Found(dataSource)
  THEN Throw(Fault(st, 1), c, DataSourceError)
  ELSE
    LET q == Len(st.qrs) + 1
        x == Len(st.ctxs) + 1
        parent == st.calls[c].cur
        context ==
          [queryRunner |-> q,
           dataSource |-> dataSource,
           isActive |-> TRUE,
           startTime |-> st.now,
           options |-> st.calls[c].options,
           contextId |-> GenerateContextId(st),
           parentContext |-> parent,
           savepoints |-> <<>>,
           depth |-> IF parent # 0 THEN st.ctxs[parent].depth + 1 ELSE 0]
        st1 == [st EXCEPT !.qrs = Append(@, NewQueryRunner),
                          !.ctxs = Append(@, context),
                          !.calls[c].ctx = x,
                          !.calls[c].pc = "connect"]
    IN Issue(st1, q, EConnect)

\* createSavepoint up to its await, after the depth check of
\* handleNestedTransaction
HandleNestedTransaction(st, c, cfg) ==
  LET parentContext == st.ctxs[st.calls[c].cur]
      savepointName == SavepointName(parentContext)
  IN IF cfg.maxNestedDepth # 0 /\ parentContext.depth >= cfg.maxNestedDepth
     THEN Throw(st, c, NestingError(cfg.maxNestedDepth))
     ELSE [Issue(st, parentContext.queryRunner, ESavepoint(savepointName))
             EXCEPT !.calls[c].pc = "sp_create",
                    !.calls[c].sp = savepointName,
                    !.calls[c].before = parentContext.savepoints]

\* a handlePropagation whose NEVER and MANDATORY cases fall through to the
\* neighbouring case of the switch
HandlePropagationFallsThrough(st, c, dataSource) ==
  LET propagation == st.calls[c].options.propagation
      currentContext == st.calls[c].cur
  IN IF currentContext # 0
     THEN CASE propagation = "REQUIRES_NEW" -> CreateNewTransaction(st, c, dataSource)
            [] propagation = "NOT_SUPPORTED" -> StartBody(st, c, 0, "exit")
            [] OTHER -> StartBody(st, c, currentContext, "stats")
     ELSE CASE propagation \in {"SUPPORTS", "NOT_SUPPORTED", "NEVER"} ->
                 StartBody(st, c, 0, "stats")
            [] OTHER -> CreateNewTransaction(st, c, dataSource)

\* handlePropagation, and createNewTransaction when it returns undefined
HandlePropagation(st, c, dataSource) ==
  LET propagation == st.calls[c].options.propagation
      currentContext == st.calls[c].cur
  IN IF currentContext # 0
     THEN CASE propagation = "REQUIRES_NEW" -> CreateNewTransaction(st, c, dataSource)
            [] propagation = "NOT_SUPPORTED" -> StartBody(st, c, 0, "exit")
            [] propagation = "NEVER" -> Throw(st, c, NeverError)
            [] OTHER -> StartBody(st, c, currentContext, "stats")
     ELSE CASE propagation \in {"SUPPORTS", "NOT_SUPPORTED", "NEVER"} ->
                 StartBody(st, c, 0, "stats")
            [] propagation = "MANDATORY" -> Throw(st, c, MandatoryError)
            [] OTHER -> CreateNewTransaction(st, c, dataSource)

\* TransactionAspect.run up to its first await
Run(st, c, cfg, dataSource) ==
  IF st.calls[c].options.propagation = "NESTED" /\ st.calls[c].cur # 0
  THEN HandleNestedTransaction(st, c, cfg)
  ELSE HandlePropagation(st, c, dataSource)

NewCall(p, o, cur) ==
  [parent |-> p,            \* the call whose body made this call, 0 at top level
   options |-> o,           \* txOptions: the options object of the decorator
   method |-> 0,            \* the decorated method invoked: index in decorated
   config |-> <<>>,         \* what getConfig() returned to this call
   cur |-> cur,             \* currentContext, 0 for undefined
   startTime |-> 0,         \* Date.now() when run() was entered
   ctx |-> 0,               \* the context createNewTransaction made, 0 for none
   sp |-> NoSavepoint,      \* savepointName of handleNestedTransaction
   before |-> <<>>,         \* the savepoint stack when the NESTED call was made
   pc |-> "start",          \* the await the call is suspended at
   mode |-> "none",         \* who awaits the body: stats, exit, nested, root
   body |-> "idle",         \* the continuation: idle, running, returned, threw
   runs |-> 0,              \* how often the continuation was invoked
   store |-> 0,             \* the AsyncLocalStorage store the body runs under
   timer |-> "off",         \* the timer of createTimeoutPromise: off, armed, fired
   resolved |-> Undefined,  \* the value the continuation resolved with
   val |-> Undefined,       \* the local `result`
   err |-> NoErr,           \* the error the catch block rethrows
   outcome |-> "pending",   \* pending, returned, threw
   counted |-> <<>>,        \* the success flags it passed to updateStats
   ret |-> Undefined]       \* the value run() resolved with

\* ---------------------------------------------------------------- actions
TunedSoFar == LET Sum[i \in 0..Len(decorated)] ==
                    IF i = 0 THEN 0 ELSE Sum[i - 1] + Tuned(decorated[i].given)
              IN Sum[Len(decorated)]

Children(c) == {d \in 1..Len(calls) : calls[d].parent = c}

\* the hooks that may throw in one step of call c, within the fault budget
Throwing(c, used) ==
  {F \in SUBSET calls[c].options.hooks : Cardinality(F) + used + faults <= scope.faults}

Cost(ok) == IF ok THEN 0 ELSE 1

\* a configure that starts a timer without stopping the one before
ConfigureKeepsTimer(partial) ==
  /\ calls = <<>> \/ scope.reconfigures
  /\ globalConfig' =
       [k \in DOMAIN globalConfig |->
          IF k \in DOMAIN partial THEN partial[k] ELSE globalConfig[k]]
  /\ globalConfig' # globalConfig \/ "cleanupInterval" \in DOMAIN partial
  /\ IF "cleanupInterval" \in DOMAIN partial
     THEN /\ Len(timers) < MaxTimers
          /\ timers' = StartCleanupTimer(timers, globalConfig'.cleanupInterval)
          /\ cleanupTimer' = Len(timers')
     ELSE UNCHANGED <<timers, cleanupTimer>>
  /\ UNCHANGED reclaimer
  /\ UNCHANGED <<calls, ctxs, qrs, contexts, recorded, stats, faults, returned, decorated, scope, plugin>>

\* TransactionManager.configure(partial): at application start, or at any
\* time by an application that reconfigures the manager while it runs.  A
\* key of partial is a key given with a defined value
Configure(partial) ==
  /\ calls = <<>> \/ scope.reconfigures
  /\ globalConfig' =
       [k \in DOMAIN globalConfig |->
          IF k \in DOMAIN partial THEN partial[k] ELSE globalConfig[k]]
  /\ globalConfig' # globalConfig \/ "cleanupInterval" \in DOMAIN partial
  /\ IF "cleanupInterval" \in DOMAIN partial
     THEN /\ Len(timers) < MaxTimers
          /\ timers' = StartCleanupTimer(StopCleanupTimerOf(timers, cleanupTimer),
                                         globalConfig'.cleanupInterval)
          /\ cleanupTimer' = Len(timers')
     ELSE UNCHANGED <<timers, cleanupTimer>>
  /\ UNCHANGED reclaimer
  /\ UNCHANGED <<calls, ctxs, qrs, contexts, recorded, stats, faults, returned, decorated, scope, plugin>>

\* validateDatabaseOptions(options), called once by the bootstrap
ValidateDatabaseOptions ==
  /\ validation = "not called"
  /\ validation' = ValidateDatabaseOptionsOf(dbOptions)
  /\ UNCHANGED reclaimer
  /\ UNCHANGED <<calls, ctxs, qrs, contexts, recorded, stats, globalConfig, faults, dbOptions,
                 decorated, scope, manager>>

\* TransactionManager.stopCleanupTimer()
StopCleanupTimer ==
  /\ timers' = StopCleanupTimerOf(timers, cleanupTimer)
  /\ timers' # timers
  /\ UNCHANGED reclaimer
  /\ UNCHANGED <<calls, ctxs, qrs, contexts, recorded, stats, globalConfig, faults, cleanupTimer,
                 returned, decorated, scope, plugin>>

\* a getStats that hands out the manager's own object
GetStatsAliased ==
  /\ Len(returned) < MaxReturned
  /\ returned' = Append(returned, [of |-> "stats", ref |-> "stats", object |-> <<>>])
  /\ UNCHANGED reclaimer
  /\ UNCHANGED <<calls, ctxs, qrs, contexts, recorded, stats, globalConfig, faults, timers,
                 cleanupTimer, decorated, scope, plugin>>

\* TransactionManager.getStats(): the caller gets a new object
GetStats ==
  /\ Len(returned) < MaxReturned
  /\ returned' = Append(returned, [of |-> "stats", ref |-> "own",
                                   object |-> GetStatsObject(stats)])
  /\ UNCHANGED reclaimer
  /\ UNCHANGED <<calls, ctxs, qrs, contexts, recorded, stats, globalConfig, faults, timers,
                 cleanupTimer, decorated, scope, plugin>>

\* TransactionManager.getConfig(): { ...globalConfig }, a new object
GetConfig ==
  /\ Len(returned) < MaxReturned
  /\ returned' = Append(returned, [of |-> "config", ref |-> "own",
                                   object |-> globalConfig])
  /\ UNCHANGED reclaimer
  /\ UNCHANGED <<calls, ctxs, qrs, contexts, recorded, stats, globalConfig, faults, timers,
                 cleanupTimer, decorated, scope, plugin>>

\* the object the i-th result is: one of its own, or one of the manager's
Deref(i) ==
  CASE returned[i].ref = "stats" -> stats
    [] returned[i].ref = "globalConfig" -> globalConfig
    [] OTHER -> returned[i].object

\* the keys a caller overwrites in an object it got, and the value it writes
CallerKeys == {"totalTransactions", "maxNestedDepth"}
CallerValues == {99}

Put(object, k, v) == [j \in DOMAIN object |-> IF j = k THEN v ELSE object[j]]

\* the caller assigns to a property of the object it got as i-th result
Modify(i, k, v) ==
  /\ i \in DOMAIN returned
  /\ k \in DOMAIN Deref(i)
  /\ Deref(i)[k] # v
  /\ CASE returned[i].ref = "stats" ->
            stats' = Put(stats, k, v) /\ UNCHANGED <<globalConfig, returned>>
       [] returned[i].ref = "globalConfig" ->
            globalConfig' = Put(globalConfig, k, v) /\ UNCHANGED <<stats, returned>>
       [] OTHER ->
            /\ returned' = [returned EXCEPT ![i].object = Put(@, k, v)]
            /\ UNCHANGED <<stats, globalConfig>>
  /\ UNCHANGED reclaimer
  /\ UNCHANGED <<calls, ctxs, qrs, contexts, recorded, faults, timers, cleanupTimer, decorated,
                 scope, plugin>>

\* TransactionManager.updateStats(duration, success), called directly
RecordDuration(duration, success) ==
  /\ stats.totalTransactions < scope.updates
  /\ stats' = UpdateStatsOf(stats, duration, success)
  /\ recorded' = Append(recorded, duration)
  /\ UNCHANGED reclaimer
  /\ UNCHANGED <<calls, ctxs, qrs, contexts, globalConfig, faults, decorated, scope,
                 manager, plugin>>

\* TransactionManager.resetStats(), at any time
ResetStats ==
  /\ stats.totalTransactions > 0
  /\ stats' = StatsZero
  /\ recorded' = <<>>
  /\ UNCHANGED reclaimer
  /\ UNCHANGED <<calls, ctxs, qrs, contexts, globalConfig, faults, decorated, scope,
                 manager, plugin>>

\* the decorated method m is invoked with its options object, which holds
\* object: at top level (p = 0), or by the running body of call p, whose store
\* is then the current context.  run() writes the global defaults into the
\* object it was given: every call of the method, and every context such a
\* call created, holds that object
Invocation(p, m, given, object, dataSource) ==
  /\ Len(calls) < scope.calls
  /\ p = 0 => Cardinality(Children(0)) < scope.roots
  /\ p # 0 => calls[p].body = "running"
  /\ Found(dataSource) \/ faults < scope.faults
  /\ LET c == Len(calls) + 1
         cur == IF p = 0 THEN 0 ELSE calls[p].store
         txOptions == ApplyDefaults(object, globalConfig)
         call == [NewCall(p, txOptions, cur) EXCEPT !.method = m,
                                                    !.config = globalConfig,
                                                    !.startTime = now]
         held == [d \in DOMAIN calls |->
                    IF calls[d].method = m
                    THEN [calls[d] EXCEPT !.options = txOptions] ELSE calls[d]]
         kept == [x \in DOMAIN ctxs |->
                    IF \E d \in DOMAIN calls : calls[d].method = m /\ calls[d].ctx = x
                    THEN [ctxs[x] EXCEPT !.options = txOptions] ELSE ctxs[x]]
     IN /\ Assign(Run([St EXCEPT !.calls = Append(held, call), !.ctxs = kept],
                      c, globalConfig, dataSource))
        /\ decorated' =
             [i \in 1..(IF m > Len(decorated) THEN m ELSE Len(decorated)) |->
                IF i = m THEN [given |-> given, options |-> txOptions]
                ELSE decorated[i]]

\* a decorated method is invoked for the first time, o being the options
\* written in its decorator
StartCall(p, o, dataSource) ==
  Invocation(p, Len(decorated) + 1, o, o, dataSource)

\* a decorated method that was invoked before is invoked again
StartAgain(p, m, dataSource) ==
  /\ m \in 1..Len(decorated)
  /\ Invocation(p, m, decorated[m].given, decorated[m].options, dataSource)

\* the body of call c resolves with v
BodyReturn(c, v, dataSource, F) ==
  /\ calls[c].body = "running"
  /\ \A d \in Children(c) : calls[d].pc = "done"
  /\ Found(dataSource) \/ faults < scope.faults
  /\ LET st0 == [St EXCEPT !.calls[c].body = "returned",
                           !.calls[c].resolved = v,
                           !.calls[c].timer = IF @ = "armed" THEN "off" ELSE @]
         unreg == [st0 EXCEPT !.contexts = @ \ {calls[c].store}]
     IN Becomes(
          IF calls[c].pc # "body" THEN unreg
          ELSE CASE calls[c].mode \in {"stats", "exit"} ->
                      LET st1 == UpdateStatsBy(st0, c, TRUE)
                      IN IF v # Undefined
                         THEN Finish([st1 EXCEPT !.calls[c].val = v], c)
                         ELSE CreateNewTransaction(st1, c, dataSource)
                 [] calls[c].mode = "nested" ->
                      [Issue(st0, ctxs[calls[c].cur].queryRunner, EReleaseSp(calls[c].sp))
                         EXCEPT !.calls[c].pc = "sp_release", !.calls[c].val = v]
                 [] OTHER ->
                      [Issue(unreg, ctxs[calls[c].ctx].queryRunner, ECommit)
                         EXCEPT !.calls[c].pc = "commit", !.calls[c].val = v])

\* a nested catch block that also rolls the enclosing transaction back
BodyThrowRollsBackRoot(c, F) ==
  /\ calls[c].body = "running"
  /\ \A d \in Children(c) : calls[d].pc = "done"
  /\ LET st0 == [St EXCEPT !.calls[c].body = "threw",
                           !.calls[c].timer = IF @ = "armed" THEN "off" ELSE @]
         unreg == [st0 EXCEPT !.contexts = @ \ {calls[c].store}]
     IN Becomes(
          IF calls[c].pc # "body" THEN unreg
          ELSE CASE calls[c].mode \in {"stats", "exit"} ->
                      Throw(UpdateStatsBy(st0, c, FALSE), c, BodyError(c))
                 [] calls[c].mode = "nested" ->
                      [Issue(Issue(st0, ctxs[calls[c].cur].queryRunner, ERollback),
                             ctxs[calls[c].cur].queryRunner, ERollbackSp(calls[c].sp))
                         EXCEPT !.calls[c].pc = "sp_rollback",
                                !.calls[c].err = BodyError(c)]
                 [] OTHER -> RollbackTransaction(unreg, c, BodyError(c), F))

\* the body of call c throws its own error
BodyThrow(c, F) ==
  /\ calls[c].body = "running"
  /\ \A d \in Children(c) : calls[d].pc = "done"
  /\ LET st0 == [St EXCEPT !.calls[c].body = "threw",
                           !.calls[c].timer = IF @ = "armed" THEN "off" ELSE @]
         unreg == [st0 EXCEPT !.contexts = @ \ {calls[c].store}]
     IN Becomes(
          IF calls[c].pc # "body" THEN unreg
          ELSE CASE calls[c].mode \in {"stats", "exit"} ->
                      Throw(UpdateStatsBy(st0, c, FALSE), c, BodyError(c))
                 [] calls[c].mode = "nested" ->
                      [Issue(st0, ctxs[calls[c].cur].queryRunner, ERollbackSp(calls[c].sp))
                         EXCEPT !.calls[c].pc = "sp_rollback",
                                !.calls[c].err = BodyError(c)]
                 [] OTHER -> RollbackTransaction(unreg, c, BodyError(c), F))

\* a timer whose error names the timeout but not the context
TimerFiresAnonymous(c, F) ==
  /\ calls[c].pc = "body"
  /\ calls[c].timer = "armed"
  /\ LET st0 == [St EXCEPT !.calls[c].timer = "fired"]
         e == TimeoutError(calls[c].options.timeout, 0)
     IN Becomes(RollbackTransaction(st0, c, e, F))

\* a timeout that goes straight to the cleanup
TimerFiresWithoutRollback(c, F) ==
  /\ calls[c].pc = "body"
  /\ calls[c].timer = "armed"
  /\ LET e == TimeoutError(calls[c].options.timeout, ctxs[calls[c].ctx].contextId)
         st0 == [St EXCEPT !.calls[c].timer = "fired", !.calls[c].err = e]
     IN Becomes(CleanupTransaction(st0, c, FALSE))

\* the timer of createTimeoutPromise fires before the body has settled
TimerFires(c, F) ==
  /\ calls[c].pc = "body"
  /\ calls[c].timer = "armed"
  /\ LET st0 == [St EXCEPT !.calls[c].timer = "fired"]
         e == TimeoutError(calls[c].options.timeout, ctxs[calls[c].ctx].contextId)
     IN Becomes(RollbackTransaction(st0, c, e, F))

\* a failed connect that leaves without the finally block
ConnectDoneUnreleased(c, ok, F) ==
  /\ calls[c].pc = "connect"
  /\ LET q == ctxs[calls[c].ctx].queryRunner
         level == calls[c].options.isolationLevel
         arg == IF level # NoIsolation THEN ReplaceUnderscores(level) ELSE <<>>
     IN Becomes(
          IF ok THEN [Issue(St, q, EBegin(arg)) EXCEPT !.calls[c].pc = "begin"]
          ELSE Throw(Fault(St, 1), c, OpError("connect")))

\* queryRunner.connect() settles
ConnectDone(c, ok, F) ==
  /\ calls[c].pc = "connect"
  /\ LET q == ctxs[calls[c].ctx].queryRunner
         level == calls[c].options.isolationLevel
         arg == IF level # NoIsolation THEN ReplaceUnderscores(level) ELSE <<>>
     IN Becomes(
          IF ok THEN [Issue(St, q, EBegin(arg)) EXCEPT !.calls[c].pc = "begin"]
          ELSE RollbackTransaction(Fault(St, 1), c, OpError("connect"), F))

\* queryRunner.startTransaction() settles
BeginDone(c, ok, F) ==
  /\ calls[c].pc = "begin"
  /\ LET q == ctxs[calls[c].ctx].queryRunner
         st1 == [St EXCEPT !.qrs[q].isTransactionActive = TRUE]
     IN Becomes(
          IF ~ok THEN RollbackTransaction(Fault(St, 1), c, OpError("startTransaction"), F)
          ELSE IF calls[c].options.readOnly
               THEN [Issue(st1, q, EReadOnly) EXCEPT !.calls[c].pc = "readonly"]
               ELSE ExecuteInTransaction(st1, c, F))

\* queryRunner.query('SET TRANSACTION READ ONLY') settles
ReadOnlyDone(c, ok, F) ==
  /\ calls[c].pc = "readonly"
  /\ Becomes(
       IF ok THEN ExecuteInTransaction(St, c, F)
       ELSE RollbackTransaction(Fault(St, 1), c, OpError("query"), F))

\* a commitTransaction whose afterCommit hook is not guarded
CommitDoneHookUnguarded(c, ok, F) ==
  /\ calls[c].pc = "commit"
  /\ LET q == ctxs[calls[c].ctx].queryRunner
         st1 == [St EXCEPT !.qrs[q].isTransactionActive = FALSE]
         st2 == RunHook(st1, c, "afterCommit", F)
     IN Becomes(
          IF ok
          THEN IF HookThrows(St, c, "afterCommit", F)
               THEN RollbackTransaction(st2, c, HookError("afterCommit"), F)
               ELSE CleanupTransaction(st2, c, TRUE)
          ELSE RollbackTransaction(Fault(St, 1), c, OpError("commitTransaction"), F))

\* a failed commit that goes straight to the cleanup
CommitDoneWithoutRollback(c, ok, F) ==
  /\ calls[c].pc = "commit"
  /\ LET q == ctxs[calls[c].ctx].queryRunner
         st1 == [St EXCEPT !.qrs[q].isTransactionActive = FALSE]
     IN Becomes(
          IF ok THEN CleanupTransaction(RunHook(st1, c, "afterCommit", F), c, TRUE)
          ELSE CleanupTransaction(
                 [Fault(St, 1) EXCEPT !.calls[c].err = OpError("commitTransaction")],
                 c, FALSE))

\* queryRunner.commitTransaction() settles
CommitDone(c, ok, F) ==
  /\ calls[c].pc = "commit"
  /\ LET q == ctxs[calls[c].ctx].queryRunner
         st1 == [St EXCEPT !.qrs[q].isTransactionActive = FALSE]
     IN Becomes(
          IF ok THEN CleanupTransaction(RunHook(st1, c, "afterCommit", F), c, TRUE)
          ELSE RollbackTransaction(Fault(St, 1), c, OpError("commitTransaction"), F))

\* a rollbackTransaction whose own failure reaches the caller
RollbackDoneRethrows(c, ok, F) ==
  /\ calls[c].pc = "rollback"
  /\ LET q == ctxs[calls[c].ctx].queryRunner
     IN Becomes(
          IF ok THEN AfterRollback([St EXCEPT !.qrs[q].isTransactionActive = FALSE], c, F)
          ELSE AfterRollback([Fault(St, 1) EXCEPT !.calls[c].err =
                                                    OpError("rollbackTransaction")], c, F))

\* queryRunner.rollbackTransaction() settles
RollbackDone(c, ok, F) ==
  /\ calls[c].pc = "rollback"
  /\ LET q == ctxs[calls[c].ctx].queryRunner
     IN Becomes(
          IF ok THEN AfterRollback([St EXCEPT !.qrs[q].isTransactionActive = FALSE], c, F)
          ELSE AfterRollback(Fault(St, 1), c, F))

\* queryRunner.release() settles
ReleaseDone(c, ok) ==
  /\ calls[c].pc = "release"
  /\ Becomes(Finish(Fault(St, Cost(ok)), c))

\* the SAVEPOINT query of createSavepoint settles
SavepointDone(c, ok) ==
  /\ calls[c].pc = "sp_create"
  /\ LET cur == calls[c].cur
     IN Becomes(
          IF ok
          THEN StartBody([St EXCEPT !.ctxs[cur].savepoints = Append(@, calls[c].sp)],
                         c, cur, "nested")
          ELSE Throw(Fault(St, 1), c, OpError("SAVEPOINT")))

\* the RELEASE SAVEPOINT query of releaseSavepoint settles
SpReleaseDone(c, ok) ==
  /\ calls[c].pc = "sp_release"
  /\ LET cur == calls[c].cur
         sp == calls[c].sp
     IN Becomes(
          IF ok
          THEN Finish([St EXCEPT !.ctxs[cur].savepoints = ReleaseSavepointStack(@, sp)], c)
          ELSE [Issue(Fault(St, 1), ctxs[cur].queryRunner, ERollbackSp(sp))
                  EXCEPT !.calls[c].pc = "sp_rollback",
                         !.calls[c].err = OpError("RELEASE SAVEPOINT")])

\* the ROLLBACK TO SAVEPOINT query of rollbackToSavepoint settles
SpRollbackDone(c, ok) ==
  /\ calls[c].pc = "sp_rollback"
  /\ LET cur == calls[c].cur
         sp == calls[c].sp
     IN Becomes(
          IF ok
          THEN Finish([St EXCEPT !.ctxs[cur].savepoints = RollbackToSavepointStack(@, sp)], c)
          ELSE Throw(Fault(St, 1), c, OpError("ROLLBACK TO SAVEPOINT")))

\* the instants at which the clock is read, in ms: the default age limit and
\* one ms later
Instants == {DefaultMaxContextAge, DefaultMaxContextAge + 1}

\* time passes
Tick(t) ==
  /\ t > now
  /\ now' = t
  /\ UNCHANGED <<calls, ctxs, qrs, contexts, stats, globalConfig, faults,
                 recorded, reclaims, decorated, scope, manager, plugin>>

\* the contexts of S the scan started at instant at takes for expired
ExpiredContexts(S, at, maxContextAge) ==
  {x \in S : at - ctxs[x].startTime > MAX_TRANSACTION_DURATION(maxContextAge)}

\* the contexts of S the scan takes for expired when it compares with >=
ExpiredContextsInclusive(S, at, maxContextAge) ==
  {x \in S : at - ctxs[x].startTime >= MAX_TRANSACTION_DURATION(maxContextAge)}

\* the promise chains the scan starts for the contexts of S, in the order
\* of their creation
RECURSIVE Chains(_)
Chains(S) ==
  IF S = {} THEN <<>>
  ELSE LET x == CHOOSE y \in S : \A z \in S : y <= z
       IN <<[queryRunner |-> ctxs[x].queryRunner, pc |-> "rollback"]>>
            \o Chains(S \ {x})

\* a scan that also removes the contexts whose age equals the limit
CleanupExpiredContextsInclusive ==
  /\ \E t \in DOMAIN timers : ~timers[t].cleared /\ now >= timers[t].interval
  /\ LET expiredContexts ==
           ExpiredContextsInclusive(contexts, now, globalConfig.maxContextAge)
         unreleased ==
           {x \in expiredContexts : ~qrs[ctxs[x].queryRunner].isReleased}
     IN /\ qrs' = [q \in DOMAIN qrs |->
                     IF \E x \in unreleased : ctxs[x].queryRunner = q
                     THEN [qrs[q] EXCEPT !.log = Append(@, ERollback)]
                     ELSE qrs[q]]
        /\ reclaims' = reclaims \o Chains(unreleased)
        /\ contexts' = contexts \ expiredContexts
  /\ UNCHANGED <<calls, ctxs, stats, globalConfig, faults, recorded, now,
                 decorated, scope, manager, plugin>>

\* cleanupExpiredContexts, run by an interval timer that is not cleared: the
\* whole scan up to its return.  rollbackTransaction() is called on every
\* expired context whose session is not released; what follows its
\* settlement runs later
CleanupExpiredContexts ==
  /\ \E t \in DOMAIN timers : ~timers[t].cleared /\ now >= timers[t].interval
  /\ LET expiredContexts ==
           ExpiredContexts(contexts, now, globalConfig.maxContextAge)
         unreleased ==
           {x \in expiredContexts : ~qrs[ctxs[x].queryRunner].isReleased}
     IN /\ qrs' = [q \in DOMAIN qrs |->
                     IF \E x \in unreleased : ctxs[x].queryRunner = q
                     THEN [qrs[q] EXCEPT !.log = Append(@, ERollback)]
                     ELSE qrs[q]]
        /\ reclaims' = reclaims \o Chains(unreleased)
        /\ contexts' = contexts \ expiredContexts
  /\ UNCHANGED <<calls, ctxs, stats, globalConfig, faults, recorded, now,
                 decorated, scope, manager, plugin>>

\* the rollbackTransaction() of chain r settles: a rejection is logged, and
\* in either case the finally handler calls release()
ReclaimRollbackDone(r, ok) ==
  /\ r \in DOMAIN reclaims
  /\ reclaims[r].pc = "rollback"
  /\ LET q == reclaims[r].queryRunner
     IN qrs' = [qrs EXCEPT ![q].isTransactionActive = IF ok THEN FALSE ELSE @,
                           ![q].isReleased = TRUE,
                           ![q].log = Append(@, ERelease)]
  /\ reclaims' = [reclaims EXCEPT ![r].pc = "release"]
  /\ faults' = faults + Cost(ok)
  /\ UNCHANGED <<calls, ctxs, contexts, stats, globalConfig, recorded, now,
                 decorated, scope, manager, plugin>>

\* the release() of chain r settles: a rejection is logged
ReclaimReleaseDone(r, ok) ==
  /\ r \in DOMAIN reclaims
  /\ reclaims[r].pc = "release"
  /\ reclaims' = [reclaims EXCEPT ![r].pc = "done"]
  /\ faults' = faults + Cost(ok)
  /\ UNCHANGED <<calls, ctxs, qrs, contexts, stats, globalConfig, recorded, now,
                 decorated, scope, manager, plugin>>

\* the partial configurations the application passes to configure()
ConfigChoices == {[maxNestedDepth |-> 1]}

Outcomes(used) == {ok \in BOOLEAN : ok \/ faults + used < scope.faults}

\* the steps of call c: its body settles
BodyStep(c) ==
  \/ \E v \in Results, dataSource \in scope.sources, F \in Throwing(c, 0) :
       BodyReturn(c, v, dataSource, F)
  \/ \E F \in Throwing(c, 0) : BodyThrow(c, F)

\* an operation on the session of the context it created settles
SessionStep(c) ==
  \/ \E ok \in BOOLEAN : \E F \in Throwing(c, Cost(ok)) : ConnectDone(c, ok, F)
  \/ \E ok \in BOOLEAN : \E F \in Throwing(c, Cost(ok)) : BeginDone(c, ok, F)
  \/ \E ok \in BOOLEAN : \E F \in Throwing(c, Cost(ok)) : CommitDone(c, ok, F)
  \/ \E ok \in BOOLEAN : \E F \in Throwing(c, Cost(ok)) : RollbackDone(c, ok, F)
  \/ \E ok \in Outcomes(0) : ReleaseDone(c, ok)

\* a savepoint statement of its NESTED scope settles
SavepointStep(c) ==
  \/ \E ok \in Outcomes(0) : SavepointDone(c, ok)
  \/ \E ok \in Outcomes(0) : SpReleaseDone(c, ok)
  \/ \E ok \in Outcomes(0) : SpRollbackDone(c, ok)

\* the steps only calls with a timeout or readOnly take
TunedStep(c) ==
  \/ \E F \in Throwing(c, 0) : TimerFires(c, F)
  \/ \E ok \in BOOLEAN : \E F \in Throwing(c, Cost(ok)) : ReadOnlyDone(c, ok, F)

\* a decorated method is invoked with options within the scope
Invoke ==
  \E o \in OptionChoices(scope.menu, scope.tuned - TunedSoFar) :
    \E p \in 0..Len(calls), dataSource \in scope.sources : StartCall(p, o, dataSource)

Next ==
  \/ Invoke
  \/ \E c \in 1..Len(calls) : BodyStep(c) \/ SessionStep(c) \/ SavepointStep(c)

NextRoot ==
  \/ Invoke
  \/ \E c \in 1..Len(calls) : BodyStep(c) \/ SessionStep(c) \/ TunedStep(c)

NextNested ==
  \/ \E partial \in ConfigChoices : Configure(partial)
  \/ Next

\* the configurations an application that wants no statistics passes
StatsConfigChoices == {[enableStats |-> FALSE]}

NextStats ==
  \/ \E partial \in StatsConfigChoices : Configure(partial)
  \/ ResetStats
  \/ Next

\* the defaults an application sets and unsets (0 and <<>>: undefined)
DefaultsChoices ==
  {[defaultTimeout |-> 80], [defaultTimeout |-> 0],
   [defaultIsolationLevel |-> <<"SERIALIZABLE">>]}

InvokeAgain ==
  \E m \in 1..Len(decorated) :
    \E p \in 0..Len(calls), dataSource \in scope.sources : StartAgain(p, m, dataSource)

NextDefaults ==
  \/ \E partial \in DefaultsChoices : Configure(partial)
  \/ Invoke
  \/ InvokeAgain
  \/ \E c \in 1..Len(calls) :
       \/ BodyStep(c)
       \/ SessionStep(c)
       \/ \E F \in Throwing(c, 0) : TimerFires(c, F)

NextTimed ==
  \/ Invoke
  \/ \E c \in 1..Len(calls) :
       BodyStep(c) \/ SessionStep(c) \/ SavepointStep(c) \/ TunedStep(c)

\* what an application passes to configure(), and the durations it records
ManagerChoices ==
  {[cleanupInterval |-> 1000], [cleanupInterval |-> 0], [maxNestedDepth |-> 1],
   [defaultTimeout |-> 80, cleanupInterval |-> 2000]}

Durations == {0, 3}

NextManager ==
  \/ \E partial \in ManagerChoices : Configure(partial)
  \/ StopCleanupTimer
  \/ GetStats
  \/ GetConfig
  \/ \E i \in DOMAIN returned, k \in CallerKeys, v \in CallerValues : Modify(i, k, v)
  \/ \E duration \in Durations, success \in BOOLEAN : RecordDuration(duration, success)
  \/ ResetStats

\* the nesting limits an application configures; 0 is a limit like any other
\* number to configure()
DepthConfigChoices == {[maxNestedDepth |-> 1], [maxNestedDepth |-> 0]}

NextDepth ==
  \/ \E partial \in DepthConfigChoices : Configure(partial)
  \/ Next

\* a decorated method is invoked whose options set the timeout at most
InvokeTimed ==
  \E o \in OptionChoices(scope.menu, scope.tuned - TunedSoFar) :
    /\ Tuned(o) = (IF o.timeout # 0 THEN 1 ELSE 0)
    /\ \E p \in 0..Len(calls), dataSource \in scope.sources :
         StartCall(p, o, dataSource)

\* the age limits an application configures; 0 is a limit like any other
\* number to configure()
ReclaimConfigChoices == {[maxContextAge |-> 1], [maxContextAge |-> 0]}

NextReclaim ==
  \/ \E partial \in ReclaimConfigChoices : Configure(partial)
  \/ \E t \in Instants : Tick(t)
  \/ CleanupExpiredContexts
  \/ \E r \in DOMAIN reclaims, ok \in Outcomes(0) : ReclaimRollbackDone(r, ok)
  \/ \E r \in DOMAIN reclaims, ok \in Outcomes(0) : ReclaimReleaseDone(r, ok)
  \/ InvokeTimed
  \/ \E c \in 1..Len(calls) :
       \/ BodyStep(c)
       \/ SessionStep(c)
       \/ \E F \in Throwing(c, 0) : TimerFires(c, F)

Spec == Init /\ [][Next]_vars

SpecReclaim == InitReclaim /\ [][NextReclaim]_vars

SpecDepth == InitDepth /\ [][NextDepth]_vars

SpecManager == InitManager /\ [][NextManager]_vars

\* the durations an application measures, in ms
NumbersDurations == {0, 1, 2, 5}

NextNumbers ==
  \/ \E duration \in NumbersDurations, success \in BOOLEAN :
       RecordDuration(duration, success)
  \/ ResetStats

SpecNumbers == InitNumbers /\ [][NextNumbers]_vars

NextValidate == ValidateDatabaseOptions

SpecValidate == InitValidate /\ [][NextValidate]_vars

SpecTimed == InitTimed /\ [][NextTimed]_vars

SpecDefaults == InitDefaults /\ [][NextDefaults]_vars

SpecStats == InitStats /\ [][NextStats]_vars

SpecRoot == InitRoot /\ [][NextRoot]_vars

SpecSource == InitSource /\ [][Next]_vars

SpecConcurrent == InitConcurrent /\ [][Next]_vars

SpecNested == InitNested /\ [][NextNested]_vars

\* ---------------------------------------------------------- observations
CallIds == 1..Len(calls)

Propagation(c) == calls[c].options.propagation

\* the session of context x, and what was issued on it
SessionOf(x) == ctxs[x].queryRunner
LogOf(x) == qrs[SessionOf(x)].log

Occurrences(log, op) == Cardinality({i \in DOMAIN log : log[i].op = op})

\* what call c itself did on the session of the context it created: the
\* transaction statements and its own body, without the hooks and without
\* the savepoint statements and bodies of the calls that joined the context
OwnEntry(e, c) ==
  \/ e.op \in {"connect", "startTransaction", "commitTransaction",
               "rollbackTransaction", "release"}
  \/ e = EReadOnly
  \/ e = EBody(c)

RECURSIVE Own(_, _)
Own(log, c) ==
  IF log = <<>> THEN <<>>
  ELSE IF OwnEntry(Head(log), c) THEN <<Head(log)>> \o Own(Tail(log), c)
       ELSE Own(Tail(log), c)

\* the dispatch table of handlePropagation: the calls that join the current
\* context or pass through without one
JoinsOrPasses(c) ==
  IF calls[c].cur # 0
  THEN Propagation(c) \in {"REQUIRED", "SUPPORTS", "MANDATORY"}
  ELSE Propagation(c) \in {"SUPPORTS", "NOT_SUPPORTED", "NEVER"}

\* ... and the calls that it sends on to createNewTransaction
CreatesContext(c) ==
  IF calls[c].cur # 0
  THEN Propagation(c) = "REQUIRES_NEW"
  ELSE Propagation(c) \in {"UNSET", "REQUIRED", "REQUIRES_NEW", "NESTED"}

RECURSIVE Ancestors(_)
Ancestors(c) ==
  IF calls[c].parent = 0 THEN {}
  ELSE {calls[c].parent} \cup Ancestors(calls[c].parent)

\* ------------------------------------------------------------------ C1
\* C1: a call that joins the current context or passes through without one
\* invokes its continuation exactly once and creates no context (acquires no
\* session), whatever the continuation resolves with.
C1_RunsOnceWithoutSession ==
  \A c \in CallIds :
    JoinsOrPasses(c) =>
      /\ calls[c].ctx = 0
      /\ calls[c].runs <= 1
      /\ calls[c].pc = "done" => calls[c].runs = 1

\* ------------------------------------------------------------------ C2
\* C2: a NEVER call made under a current context and a MANDATORY call made
\* without one fail at once with their propagation error: in the step that
\* makes the call the call is over, its continuation was not invoked, and no
\* context, no session and no statement on any session was added.
Rejected(call) ==
  \/ call.options.propagation = "NEVER" /\ call.cur # 0
  \/ call.options.propagation = "MANDATORY" /\ call.cur = 0

C2_RejectedBeforeSession ==
  [][\A c \in 1..Len(calls') :
       (c > Len(calls) /\ Rejected(calls'[c])) =>
         /\ calls'[c].pc = "done"
         /\ calls'[c].outcome = "threw"
         /\ calls'[c].err = IF calls'[c].cur # 0 THEN NeverError ELSE MandatoryError
         /\ calls'[c].runs = 0
         /\ calls'[c].body = "idle"
         /\ calls'[c].ctx = 0
         /\ qrs' = qrs
         /\ ctxs' = ctxs]_vars

C2_Witness ==
  \E c \in CallIds :
    /\ Propagation(c) = "NEVER"
    /\ calls[c].cur # 0
    /\ calls[c].pc = "done"
    /\ calls[c].err = NeverError
    /\ LogOf(calls[c].cur) # <<>>

\* ------------------------------------------------------------------ C3
\* C3: a REQUIRES_NEW call made under a current context gets a context of its
\* own, with another id and another session; while it is in flight the outer
\* transaction is open and untouched by it (no step of the inner call issues
\* anything on the outer session); when it returned it had begun and
\* committed on its own session, and the outer body still runs under the
\* outer context.
InnerNew(c) == Propagation(c) = "REQUIRES_NEW" /\ calls[c].cur # 0

C3_InnerKeepsToItsSession ==
  \A c \in CallIds :
    (InnerNew(c) /\ calls[c].ctx # 0) =>
      LET inner == calls[c].ctx
          outer == calls[c].cur
      IN /\ ctxs[inner].contextId # ctxs[outer].contextId
         /\ SessionOf(inner) # SessionOf(outer)
         /\ ctxs[inner].parentContext = outer
         /\ calls[c].pc # "done" =>
              /\ calls[calls[c].parent].body = "running"
              /\ calls[calls[c].parent].store = outer
              /\ qrs[SessionOf(outer)].isTransactionActive
              /\ ~qrs[SessionOf(outer)].isReleased
              /\ Occurrences(LogOf(outer), "startTransaction") = 1
              /\ Occurrences(LogOf(outer), "commitTransaction") = 0
              /\ Occurrences(LogOf(outer), "rollbackTransaction") = 0
         /\ (calls[c].pc = "done" /\ calls[c].outcome = "returned") =>
              /\ Occurrences(LogOf(inner), "startTransaction") = 1
              /\ Occurrences(LogOf(inner), "commitTransaction") = 1

C3_InnerStepsLeaveOuterSession ==
  \A c \in 1..Len(calls') :
    (calls'[c].options.propagation = "REQUIRES_NEW" /\ calls'[c].cur # 0
       /\ (c > Len(calls) \/ calls'[c] # calls[c])) =>
      /\ qrs'[ctxs[calls'[c].cur].queryRunner] = qrs[ctxs[calls'[c].cur].queryRunner]
      /\ calls'[c].pc = "done" =>
           /\ calls'[calls'[c].parent].body = "running"
           /\ calls'[calls'[c].parent].store = calls'[c].cur

C3_RequiresNewIsolated ==
  [](C3_InnerKeepsToItsSession) /\ [][C3_InnerStepsLeaveOuterSession]_vars

C3_Witness ==
  \E c \in CallIds :
    /\ InnerNew(c)
    /\ calls[c].pc = "done"
    /\ calls[c].outcome = "returned"
    /\ LogOf(calls[c].ctx)[Len(LogOf(calls[c].ctx))] = ERelease
    /\ calls[calls[c].parent].body = "running"

\* ------------------------------------------------------------------ C4
\* C4: the continuation of a NOT_SUPPORTED call made under a current context
\* runs with no current context, every time and for as long as it runs, and
\* the call creates no context of its own.
C4_RunsSuspended ==
  \A c \in CallIds :
    (Propagation(c) = "NOT_SUPPORTED" /\ calls[c].cur # 0) =>
      /\ calls[c].body = "running" => calls[c].store = 0
      /\ calls[c].ctx = 0

\* ------------------------------------------------------------------ C5
\* C5: when a call that creates a context returns, what it did on its
\* session is exactly connect, begin (with the isolation level, its
\* underscores turned into spaces, when one is set), SET TRANSACTION READ
\* ONLY exactly when readOnly is set, the body, commit, release; it returns
\* what the body resolved with; and the step that completes its commit
\* counts one more transaction, a successful one.
Spaced(level, arg) ==
  /\ Len(arg) = Len(level)
  /\ \A i \in 1..Len(level) :
       /\ arg[i] # "_"
       /\ level[i] # "_" => arg[i] = level[i]
       /\ level[i] = "_" => arg[i] = " "

Counted(success) ==
  /\ stats'.totalTransactions = stats.totalTransactions + 1
  /\ stats'.successfulTransactions =
       stats.successfulTransactions + (IF success THEN 1 ELSE 0)
  /\ stats'.failedTransactions = stats.failedTransactions + (IF success THEN 0 ELSE 1)

C5_Returned ==
  \A c \in CallIds :
    (CreatesContext(c) /\ calls[c].pc = "done" /\ calls[c].outcome = "returned") =>
      LET own == Own(LogOf(calls[c].ctx), c)
          o == calls[c].options
          k == IF o.readOnly THEN 1 ELSE 0
      IN /\ Len(own) = 5 + k
         /\ own[1] = EConnect
         /\ own[2].op = "startTransaction"
         /\ Spaced(o.isolationLevel, own[2].text)
         /\ o.readOnly => own[3] = EReadOnly
         /\ SubSeq(own, 3 + k, 5 + k) = <<EBody(c), ECommit, ERelease>>
         /\ calls[c].body = "returned"
         /\ calls[c].ret = calls[c].resolved
         /\ Len(calls) = 1 =>
              Counters(stats) =
                [totalTransactions |-> 1, successfulTransactions |-> 1,
                 failedTransactions |-> 0]

C5_Commits ==
  \A c \in CallIds :
    (CreatesContext(c) /\ calls[c].pc = "commit" /\ calls'[c].pc \in {"release", "done"})
      => Counted(TRUE)

C6_BodyErrorPath ==
  \A c \in CallIds :
    (CreatesContext(c) /\ calls[c].body = "threw" /\ calls[c].timer # "fired") =>
      LET own == Own(LogOf(calls[c].ctx), c)
          n == Len(own)
      IN /\ calls[c].err = BodyError(c)
         /\ Occurrences(own, "commitTransaction") = 0
         /\ Occurrences(own, "rollbackTransaction") = 1
         /\ calls[c].pc = "done" =>
              /\ calls[c].outcome = "threw"
              /\ n >= 5
              /\ SubSeq(own, n - 2, n) = <<EBody(c), ERollback, ERelease>>

C6_Witness ==
  \E c \in CallIds :
    /\ CreatesContext(c)
    /\ calls[c].body = "threw"
    /\ calls[c].timer # "fired"
    /\ calls[c].pc = "done"
    /\ calls[c].err = BodyError(c)
    /\ faults = 2
    /\ qrs[SessionOf(calls[c].ctx)].isTransactionActive

\* ------------------------------------------------------------------ C7
\* C7: the session of a context is released at most once, and exactly once
\* by the time the call that created the context is over.
C7_ReleasedOnce ==
  \A c \in CallIds :
    calls[c].ctx # 0 =>
      /\ Occurrences(LogOf(calls[c].ctx), "release") <= 1
      /\ calls[c].pc = "done" =>
           /\ Occurrences(LogOf(calls[c].ctx), "release") = 1
           /\ qrs[SessionOf(calls[c].ctx)].isReleased

C7_Witness ==
  \E c \in CallIds :
    /\ calls[c].ctx # 0
    /\ calls[c].pc = "done"
    /\ calls[c].err = OpError("connect")
    /\ Occurrences(LogOf(calls[c].ctx), "release") = 1

\* ------------------------------------------------------------------ C8
\* C8: when the timer of a call fires while its body runs, the call throws
\* the timeout error with its timeout and the id of its context; it never
\* commits; rollback is issued in the very step of the timer and release
\* follows, body settled or not; and completing the rollback counts one more
\* transaction, a failed one (the only failed one when the call is the only
\* call made).
C8_TimedOut ==
  \A c \in CallIds :
    calls[c].timer = "fired" =>
      LET own == Own(LogOf(calls[c].ctx), c)
          n == Len(own)
          o == calls[c].options
      IN /\ o.timeout > 0
         /\ calls[c].err = TimeoutError(o.timeout, ctxs[calls[c].ctx].contextId)
         /\ Occurrences(own, "commitTransaction") = 0
         /\ \E i \in 1..(n - 1) : own[i] = EBody(c) /\ own[i + 1] = ERollback
         /\ calls[c].pc \in {"rollback", "release", "done"}
         /\ calls[c].pc = "done" =>
              /\ calls[c].outcome = "threw"
              /\ SubSeq(own, n - 2, n) = <<EBody(c), ERollback, ERelease>>
              /\ Len(calls) = 1 => stats.failedTransactions = 1
              /\ (Len(calls) = 1 /\ CreatesContext(c)) =>
                   Counters(stats) =
                     [totalTransactions |-> 1, successfulTransactions |-> 0,
                      failedTransactions |-> 1]

C8_RollsBack ==
  \A c \in CallIds :
    (calls[c].timer = "fired" /\ calls[c].pc = "rollback" /\ calls'[c].pc # "rollback")
      => Counted(FALSE)

C8_TimeoutPath == [](C8_TimedOut) /\ [][C8_RollsBack]_vars

C8_Witness ==
  \E c \in CallIds :
    /\ calls[c].timer = "fired"
    /\ calls[c].pc = "done"
    /\ calls[c].body = "running"
    /\ calls[c].err = TimeoutError(50, 1)

\* ------------------------------------------------------------------ C9
\* C9: a NESTED call made under a current context creates no context; its
\* savepoint is named after the context id and the length of the stack at
\* the call; its body runs under the same context; and when its body
\* succeeded and its RELEASE SAVEPOINT resolved, with nothing having failed
\* and no other scope of the context in flight beside it, the stack is what
\* it was when the call was made.
NestedScope(c) == Propagation(c) = "NESTED" /\ calls[c].cur # 0

Linear(c) ==
  \A d \in CallIds \ {c} :
    (NestedScope(d) /\ calls[d].cur = calls[c].cur) =>
      d \in Ancestors(c) \/ c \in Ancestors(d)

C9_Scope ==
  \A c \in CallIds :
    NestedScope(c) =>
      /\ calls[c].ctx = 0
      /\ calls[c].sp # NoSavepoint =>
           calls[c].sp = [cid |-> ctxs[calls[c].cur].contextId, n |-> Len(calls[c].before)]
      /\ calls[c].body # "idle" => calls[c].store = calls[c].cur

C9_Released ==
  \A c \in CallIds :
    (NestedScope(c) /\ calls[c].pc = "sp_release" /\ calls'[c].pc = "done"
       /\ calls'[c].outcome = "returned" /\ faults' = 0 /\ Linear(c)) =>
      ctxs'[calls[c].cur].savepoints = calls[c].before

C9_ScopeRestoresStack == [](C9_Scope) /\ [][C9_Released]_vars

\* ------------------------------------------------------------------ C10
\* C10: when ROLLBACK TO SAVEPOINT of a scope resolved, the stack ends at the
\* predecessor of that scope's savepoint; when RELEASE SAVEPOINT resolved,
\* only that savepoint is gone from the stack.
C10_StackAfterSavepoint ==
  [][\A c \in CallIds :
       LET stack == ctxs[calls[c].cur].savepoints
           i == IndexOf(stack, calls[c].sp)
       IN /\ (calls[c].pc = "sp_rollback" /\ calls'[c].pc = "done" /\ faults' = faults
               /\ i >= 1) =>
               ctxs'[calls[c].cur].savepoints = SubSeq(stack, 1, i - 1)
          /\ (calls[c].pc = "sp_release" /\ calls'[c].pc = "done" /\ i >= 1) =>
               ctxs'[calls[c].cur].savepoints =
                 SubSeq(stack, 1, i - 1) \o SubSeq(stack, i + 1, Len(stack))]_vars

\* ------------------------------------------------------------------ C11
\* C11: no step of a NESTED scope touches the transaction of its context: it
\* adds no rollback, commit or release to the session, leaves the session's
\* flags and the registry alone, and when the scope is over the body that
\* made it still runs under the same context; a root whose nested scope threw
\* can return, and then it has committed and released without any rollback.
TransactionStatements(log) ==
  <<Occurrences(log, "rollbackTransaction"), Occurrences(log, "commitTransaction"),
    Occurrences(log, "release"), Occurrences(log, "startTransaction")>>

C11_ScopeStep ==
  \A c \in 1..Len(calls') :
    (calls'[c].options.propagation = "NESTED" /\ calls'[c].cur # 0
       /\ (c > Len(calls) \/ calls'[c] # calls[c])) =>
      LET q == ctxs[calls'[c].cur].queryRunner
          p == calls'[c].parent
      IN /\ TransactionStatements(qrs'[q].log) = TransactionStatements(qrs[q].log)
         /\ qrs'[q].isTransactionActive = qrs[q].isTransactionActive
         /\ qrs'[q].isReleased = qrs[q].isReleased
         /\ contexts' = contexts
         /\ calls'[p].body = "running"
         /\ calls'[p].store = calls'[c].cur

FailedScopeUnder(x) ==
  \E c \in CallIds : NestedScope(c) /\ calls[c].cur = x /\ calls[c].outcome = "threw"

C11_RootOutcome ==
  \A r \in CallIds :
    (calls[r].ctx # 0 /\ calls[r].pc = "done" /\ calls[r].outcome = "returned"
       /\ FailedScopeUnder(calls[r].ctx)) =>
      LET own == Own(LogOf(calls[r].ctx), r)
          n == Len(own)
      IN /\ Occurrences(own, "rollbackTransaction") = 0
         /\ n >= 5
         /\ SubSeq(own, n - 1, n) = <<ECommit, ERelease>>

C11_RootSurvivesNestedFailure == [](C11_RootOutcome) /\ [][C11_ScopeStep]_vars

C11_Witness ==
  \E r \in CallIds :
    /\ calls[r].ctx # 0
    /\ calls[r].pc = "done"
    /\ calls[r].outcome = "returned"
    /\ \E c \in CallIds :
         /\ NestedScope(c)
         /\ calls[c].cur = calls[r].ctx
         /\ calls[c].parent = r
         /\ calls[c].err = BodyError(c)
         /\ calls[c].outcome = "threw"

\* ------------------------------------------------------------------ C12
\* C12: when the body of a NESTED scope threw E, the scope throws exactly E,
\* whatever became of its savepoint statements.
C12_NestedErrorTransparent ==
  \A c \in CallIds :
    (NestedScope(c) /\ calls[c].body = "threw" /\ calls[c].pc = "done") =>
      /\ calls[c].outcome = "threw"
      /\ calls[c].err = BodyError(c)

\* ------------------------------------------------------------------ C13
\* C13: the NESTED scopes open inside one another on a context are never more
\* than maxNestedDepth, and no registered context is deeper than
\* maxNestedDepth.
OpenScope(c) == NestedScope(c) /\ calls[c].pc \in {"body", "sp_release", "sp_rollback"}

ScopeChain(c) ==
  {d \in Ancestors(c) \cup {c} : OpenScope(d) /\ calls[d].cur = calls[c].cur}

C13_NestingBounded ==
  /\ \A c \in CallIds :
       OpenScope(c) => Cardinality(ScopeChain(c)) <= globalConfig.maxNestedDepth
  /\ \A x \in contexts : ctxs[x].depth <= globalConfig.maxNestedDepth

\* ------------------------------------------------------------------ C14
\* C14: an invocation of run that is over has called updateStats exactly
\* once.
C14_CountedOnce ==
  \A c \in CallIds : calls[c].pc = "done" => Len(calls[c].counted) = 1

\* ------------------------------------------------------------------ C15
\* C15: successful + failed = total at all times; no counter decreases except
\* when resetStats zeroes all three; and every success flag a call passed to
\* updateStats agrees with how the call ended for its caller.
C15_Sum ==
  stats.successfulTransactions + stats.failedTransactions = stats.totalTransactions

C15_Flags ==
  \A c \in CallIds :
    calls[c].pc = "done" =>
      \A i \in DOMAIN calls[c].counted :
        calls[c].counted[i] = (calls[c].outcome = "returned")

C15_Monotone ==
  \/ stats' = StatsZero
  \/ /\ stats'.totalTransactions >= stats.totalTransactions
     /\ stats'.successfulTransactions >= stats.successfulTransactions
     /\ stats'.failedTransactions >= stats.failedTransactions

C15_StatsConsistent == [](C15_Sum /\ C15_Flags) /\ [][C15_Monotone]_vars

\* ------------------------------------------------------------------ C16
\* C16: while enableStats is false, no step of a transactional call changes
\* the statistics.
C16_DisabledStatsFrozen ==
  [][(~globalConfig.enableStats /\ calls' # calls) => stats' = stats]_vars

\* ------------------------------------------------------------------ C17
\* C17: each hook of a call runs at most once and only when set.  beforeCommit
\* runs in the step in which begin (or the read-only statement) resolved,
\* before the body is started; afterCommit runs in the step in which commit
\* resolved, and then no rollback and no rollback hook ever happened;
\* beforeRollback runs before rollback is issued; afterRollback runs when no
\* rollback is pending (none was issued, or it has settled), after
\* beforeRollback; and with a rollback hook afterCommit never ran.  A call
\* that returned ran its commit hooks and no rollback hook, a call that threw
\* after creating its context ran its rollback hooks and not afterCommit.
Range(log) == {log[i] : i \in DOMAIN log}

Positions(log, E) == {i \in DOMAIN log : log[i] \in E}

HookEntries(h, c) == {EHook(h, c), EHookThrew(h, c)}

HookPos(log, h, c) == Positions(log, HookEntries(h, c))

C17_Ran ==
  \A c \in CallIds :
    calls[c].ctx # 0 =>
      LET log == LogOf(calls[c].ctx)
          set == calls[c].options.hooks
      IN /\ \A h \in HookNames :
              /\ Cardinality(HookPos(log, h, c)) <= 1
              /\ HookPos(log, h, c) # {} => h \in set
         /\ (calls[c].pc = "done" /\ calls[c].outcome = "returned") =>
              /\ \A h \in set \cap {"beforeCommit", "afterCommit"} :
                   HookPos(log, h, c) # {}
              /\ HookPos(log, "beforeRollback", c) = {}
              /\ HookPos(log, "afterRollback", c) = {}
         /\ (calls[c].pc = "done" /\ calls[c].outcome = "threw") =>
              /\ \A h \in set \cap {"beforeRollback", "afterRollback"} :
                   HookPos(log, h, c) # {}
              /\ HookPos(log, "afterCommit", c) = {}

C17_Runs ==
  \A c \in CallIds :
    calls[c].ctx # 0 =>
      LET q == SessionOf(calls[c].ctx)
          old == qrs[q].log
          new == qrs'[q].log
          fresh == (Len(old) + 1)..Len(new)
          Now(h) == {i \in fresh : new[i] \in HookEntries(h, c)}
      IN /\ \A i \in Now("beforeCommit") :
              /\ calls[c].pc \in {"begin", "readonly"}
              /\ qrs'[q].isTransactionActive
              /\ Occurrences(old, "startTransaction") = 1
              /\ calls[c].options.readOnly => Positions(old, {EReadOnly}) # {}
              /\ Positions(old, {EBody(c)}) = {}
              /\ \A j \in Positions(new, {EBody(c)}) : j > i
         /\ \A i \in Now("afterCommit") :
              /\ calls[c].pc = "commit"
              /\ old[Len(old)] = ECommit
              /\ ~qrs'[q].isTransactionActive
              /\ Occurrences(new, "rollbackTransaction") = 0
              /\ HookPos(new, "beforeRollback", c) = {}
              /\ HookPos(new, "afterRollback", c) = {}
         /\ \A i \in Now("beforeRollback") :
              /\ Occurrences(old, "rollbackTransaction") = 0
              /\ \A j \in Positions(new, {ERollback}) : j > i
              /\ HookPos(new, "afterCommit", c) = {}
         /\ \A i \in Now("afterRollback") :
              /\ Positions(new, {ERollback}) \subseteq DOMAIN old
              /\ Positions(old, {ERollback}) # {} => calls[c].pc = "rollback"
              /\ "beforeRollback" \in calls[c].options.hooks =>
                   \E j \in HookPos(new, "beforeRollback", c) : j < i
              /\ HookPos(new, "afterCommit", c) = {}

C17_HookOrder == [](C17_Ran) /\ [][C17_Runs]_vars

C17_Witness ==
  \E c \in CallIds :
    /\ calls[c].ctx # 0
    /\ calls[c].pc = "done"
    /\ calls[c].body = "threw"
    /\ calls[c].options.hooks = {"beforeRollback", "afterRollback"}
    /\ \E i, j, k \in DOMAIN LogOf(calls[c].ctx) :
         /\ i < j /\ j < k
         /\ LogOf(calls[c].ctx)[i] = EHook("beforeRollback", c)
         /\ LogOf(calls[c].ctx)[j] = ERollback
         /\ LogOf(calls[c].ctx)[k] = EHook("afterRollback", c)

\* ------------------------------------------------------------------ C18
\* C18: once afterCommit has run (the body succeeded and commit resolved),
\* the call has no error, was counted as successful, never rolls back, and
\* returns what the body resolved with, whether the hook threw or not.
C18_AfterCommitHarmless ==
  \A c \in CallIds :
    (calls[c].ctx # 0 /\ HookPos(LogOf(calls[c].ctx), "afterCommit", c) # {}) =>
      /\ calls[c].err = NoErr
      /\ calls[c].body = "returned"
      /\ Occurrences(LogOf(calls[c].ctx), "rollbackTransaction") = 0
      /\ Occurrences(LogOf(calls[c].ctx), "commitTransaction") = 1
      /\ calls[c].counted # <<>>
      /\ calls[c].counted[Len(calls[c].counted)]
      /\ CreatesContext(c) => calls[c].counted = <<TRUE>>
      /\ calls[c].pc = "done" =>
           /\ calls[c].outcome = "returned"
           /\ calls[c].ret = calls[c].resolved

C18_Witness ==
  \E c \in CallIds :
    /\ calls[c].ctx # 0
    /\ EHookThrew("afterCommit", c) \in Range(LogOf(calls[c].ctx))
    /\ calls[c].pc = "done"
    /\ calls[c].outcome = "returned"
    /\ calls[c].ret = "result"
    /\ stats.successfulTransactions = 1

\* ------------------------------------------------------------------ C19
\* C19: once beforeCommit has thrown H, the body is not run under the new
\* context, no commit is issued, rollback is issued after the hook, the
\* error of the call is H; and when the call is over it threw, its session
\* is released and it was counted as failed.
C19_BeforeCommitFails ==
  \A c \in CallIds :
    (calls[c].ctx # 0 /\ EHookThrew("beforeCommit", c) \in Range(LogOf(calls[c].ctx))) =>
      LET log == LogOf(calls[c].ctx)
      IN /\ Positions(log, {EBody(c)}) = {}
         /\ CreatesContext(c) => calls[c].runs = 0 /\ calls[c].body = "idle"
         /\ Occurrences(log, "commitTransaction") = 0
         /\ calls[c].err = HookError("beforeCommit")
         /\ \E j \in Positions(log, {ERollback}) :
              \A i \in HookPos(log, "beforeCommit", c) : i < j
         /\ calls[c].pc = "done" =>
              /\ calls[c].outcome = "threw"
              /\ Occurrences(log, "release") = 1
              /\ calls[c].counted # <<>>
              /\ ~calls[c].counted[Len(calls[c].counted)]
              /\ CreatesContext(c) => calls[c].counted = <<FALSE>>

C19_Witness ==
  \E c \in CallIds :
    /\ CreatesContext(c)
    /\ calls[c].ctx # 0
    /\ EHookThrew("beforeCommit", c) \in Range(LogOf(calls[c].ctx))
    /\ calls[c].pc = "done"
    /\ calls[c].err = HookError("beforeCommit")
    /\ stats.failedTransactions = 1

\* ------------------------------------------------------------------ C20
\* C20: when commit rejected with C after the body succeeded, the error of
\* the call is C, afterCommit does not run, rollback is issued right after
\* the commit; and when the call is over it threw C instead of returning the
\* body's value, its session is released and it was counted as failed.
CommitError == OpError("commitTransaction")

C20_CommitFails ==
  \A c \in CallIds :
    calls[c].err = CommitError =>
      LET log == LogOf(calls[c].ctx)
          own == Own(log, c)
      IN /\ calls[c].body = "returned"
         /\ HookPos(log, "afterCommit", c) = {}
         /\ \E i \in 1..(Len(own) - 1) : own[i] = ECommit /\ own[i + 1] = ERollback
         /\ Occurrences(log, "commitTransaction") = 1
         /\ calls[c].pc = "done" =>
              /\ calls[c].outcome = "threw"
              /\ calls[c].ret = Undefined
              /\ Occurrences(log, "release") = 1
              /\ ~calls[c].counted[Len(calls[c].counted)]
              /\ CreatesContext(c) => calls[c].counted = <<FALSE>>

C20_Witness ==
  \E c \in CallIds :
    /\ calls[c].err = CommitError
    /\ calls[c].pc = "done"
    /\ calls[c].resolved = "result"
    /\ stats.failedTransactions = 1
    /\ stats.successfulTransactions = 0

\* ------------------------------------------------------------------ C21
\* C21: when connect or begin rejected with F, the error of the call is F
\* from that step on; the body is not run under the new context, beforeCommit
\* does not run, no commit is issued; and when the call is over it threw F
\* and release was issued on its session.
BeginErrors == {OpError("connect"), OpError("startTransaction")}

C21_Failed ==
  \A c \in CallIds :
    calls[c].err \in BeginErrors =>
      LET log == LogOf(calls[c].ctx)
      IN /\ Positions(log, {EBody(c)}) = {}
         /\ CreatesContext(c) => calls[c].runs = 0 /\ calls[c].body = "idle"
         /\ HookPos(log, "beforeCommit", c) = {}
         /\ Occurrences(log, "commitTransaction") = 0
         /\ calls[c].err = OpError("connect") =>
              Occurrences(log, "startTransaction") = 0
         /\ calls[c].pc \in {"rollback", "release", "done"}
         /\ calls[c].pc = "done" =>
              /\ calls[c].outcome = "threw"
              /\ Occurrences(log, "release") = 1
              /\ log[Len(log)] = ERelease

C21_Fails ==
  \A c \in CallIds :
    /\ (calls[c].pc = "connect" /\ calls'[c].pc # "connect" /\ faults' > faults) =>
         calls'[c].err = OpError("connect")
    /\ (calls[c].pc = "begin" /\ calls'[c].pc # "begin"
          /\ ~qrs'[SessionOf(calls[c].ctx)].isTransactionActive) =>
         calls'[c].err = OpError("startTransaction")
    /\ calls[c].err \in BeginErrors => calls'[c].err = calls[c].err

C21_BeginFailureAborts == [](C21_Failed) /\ [][C21_Fails]_vars

C21_Witness ==
  \E c \in CallIds :
    /\ calls[c].err = OpError("startTransaction")
    /\ calls[c].pc = "done"
    /\ calls[c].outcome = "threw"
    /\ "beforeCommit" \in calls[c].options.hooks
    /\ LogOf(calls[c].ctx)[Len(LogOf(calls[c].ctx))] = ERelease

\* ------------------------------------------------------------------ C22
\* C22: a session is only ever acquired from an initialised datasource, and a
\* call whose datasource is not available is over with the datasource error,
\* without a context and, when it went straight for a new context, without
\* its body having run.
C22_UnavailableRejected ==
  /\ \A x \in DOMAIN ctxs : IsInitialized(ctxs[x].dataSource)
  /\ \A c \in CallIds :
       calls[c].err = DataSourceError =>
         /\ calls[c].ctx = 0
         /\ calls[c].pc = "done"
         /\ calls[c].outcome = "threw"
         /\ CreatesContext(c) => calls[c].runs = 0

\* ------------------------------------------------------------------ C23
\* C23: with top-level calls running side by side, the contexts created have
\* pairwise distinct ids and sessions; the body a call runs in its own
\* transaction observes that call's context; no body observes the context of
\* a call that is not itself or one of its ancestors; and what a running body
\* observes does not change from one step to the next.
Creator(x) == CHOOSE c \in CallIds : calls[c].ctx = x

C23_OwnContext ==
  /\ \A x, y \in DOMAIN ctxs :
       x # y => /\ ctxs[x].contextId # ctxs[y].contextId
                /\ SessionOf(x) # SessionOf(y)
  /\ \A c, d \in CallIds : (c # d /\ calls[c].ctx # 0) => calls[c].ctx # calls[d].ctx
  /\ \A c \in CallIds :
       /\ (calls[c].body = "running" /\ calls[c].mode = "root") =>
            calls[c].store = calls[c].ctx /\ calls[c].ctx # 0
       /\ (calls[c].body = "running" /\ calls[c].store # 0) =>
            Creator(calls[c].store) \in Ancestors(c) \cup {c}
       /\ (calls[c].parent = 0 /\ calls[c].body = "running" /\ calls[c].store # 0) =>
            calls[c].store = calls[c].ctx

C23_StoreStable ==
  \A c \in CallIds :
    (calls[c].body = "running" /\ calls'[c].body = "running") =>
      calls'[c].store = calls[c].store

C23_ContextsIsolated == [](C23_OwnContext) /\ [][C23_StoreStable]_vars

C23_Witness ==
  \E c, d \in CallIds :
    /\ c # d
    /\ calls[c].parent = 0 /\ calls[d].parent = 0
    /\ calls[c].body = "running" /\ calls[d].body = "running"
    /\ calls[c].store # 0 /\ calls[d].store # 0
    /\ calls[c].store # calls[d].store

\* ------------------------------------------------------------------ C24
\* C24: the isolation level a call begins with and the timeout its timer is
\* armed with are the ones written in its decorator when written there, and
\* otherwise the global defaults that were configured when the call was made.
Given(c) == decorated[calls[c].method].given

ExpectedTimeout(c) ==
  IF Given(c).timeout # 0 THEN Given(c).timeout ELSE calls[c].config.defaultTimeout

ExpectedIsolationLevel(c) ==
  IF Given(c).isolationLevel # NoIsolation THEN Given(c).isolationLevel
  ELSE calls[c].config.defaultIsolationLevel

C24_DefaultsOfTheCall ==
  \A c \in CallIds :
    calls[c].ctx # 0 =>
      LET log == LogOf(calls[c].ctx)
      IN /\ \A i \in DOMAIN log :
              log[i].op = "startTransaction" =>
                log[i].text = ReplaceUnderscores(ExpectedIsolationLevel(c))
         /\ calls[c].timer # "off" => ExpectedTimeout(c) > 0
         /\ (calls[c].pc = "body" /\ ExpectedTimeout(c) > 0) => calls[c].timer # "off"
         /\ calls[c].timer = "fired" =>
              calls[c].err = TimeoutError(ExpectedTimeout(c), ctxs[calls[c].ctx].contextId)

\* ------------------------------------------------------------------ C25
\* C25 (as stated): once the transaction of a context has begun and its
\* session is released, exactly one commit or rollback statement was issued
\* on the session.
Begun(c) ==
  Positions(LogOf(calls[c].ctx),
            {EReadOnly, EBody(c), ERollback} \cup HookEntries("beforeCommit", c)) # {}

Released(c) == Occurrences(LogOf(calls[c].ctx), "release") > 0

SavepointNames(log) ==
  {[cid |-> e.cid, n |-> e.n] : e \in {e \in Range(log) : e.text = <<"SAVEPOINT">>}}

Opened(log, sp) == Cardinality(Positions(log, {ESavepoint(sp)}))

Closed(log, sp) == Cardinality(Positions(log, {EReleaseSp(sp), ERollbackSp(sp)}))

C26_SavepointsPaired ==
  \A x \in DOMAIN ctxs :
    LET log == LogOf(x)
        ends == Positions(log, {ECommit, ERollback})
    IN \A sp \in SavepointNames(log) :
         /\ Closed(log, sp) <= Opened(log, sp)
         /\ \A i \in Positions(log, {ESavepoint(sp), EReleaseSp(sp), ERollbackSp(sp)}) :
              \A j \in ends : i < j
         /\ (faults = 0 /\ ends # {}) => Closed(log, sp) = Opened(log, sp)

\* ------------------------------------------------------------------ C27
\* C27: when a REQUIRED call ran a NESTED scope that succeeded and then one
\* whose body threw, and returned, with nothing else having failed, the
\* statements on its session are connect, begin, SAVEPOINT sp_<cid>_0, the
\* first body, RELEASE SAVEPOINT sp_<cid>_0, SAVEPOINT sp_<cid>_1, the second
\* body, ROLLBACK TO SAVEPOINT sp_<cid>_1, commit, release.
\* the operations of a log without the names they were issued with
Statements(log) ==
  [i \in DOMAIN log |-> IF log[i].op = "query" THEN log[i].text ELSE log[i].op]

SuccessThenFailure(r, c1, c2) ==
  /\ calls[r].ctx # 0 /\ calls[r].pc = "done" /\ calls[r].outcome = "returned"
  /\ NestedScope(c1) /\ calls[c1].parent = r /\ calls[c1].cur = calls[r].ctx
  /\ NestedScope(c2) /\ calls[c2].parent = r /\ calls[c2].cur = calls[r].ctx
  /\ Children(r) = {c1, c2}
  /\ calls[c1].outcome = "returned"
  /\ calls[c2].err = BodyError(c2)
  /\ faults = 0
  /\ Statements(LogOf(calls[r].ctx)) =
       <<"connect", "startTransaction", "body",
         <<"SAVEPOINT">>, "body", <<"RELEASE", " ", "SAVEPOINT">>,
         <<"SAVEPOINT">>, "body", <<"ROLLBACK", " ", "TO", " ", "SAVEPOINT">>,
         "commitTransaction", "release">>
  /\ LogOf(calls[r].ctx)[5] = EBody(c1)
  /\ LogOf(calls[r].ctx)[8] = EBody(c2)

C27_SuccessThenFailureTrace ==
  \A r, c1, c2 \in CallIds :
    SuccessThenFailure(r, c1, c2) =>
      LET cid == ctxs[calls[r].ctx].contextId
          sp0 == [cid |-> cid, n |-> 0]
          sp1 == [cid |-> cid, n |-> 1]
      IN LogOf(calls[r].ctx) =
           <<EConnect, EBegin(<<>>), EBody(r),
             ESavepoint(sp0), EBody(c1), EReleaseSp(sp0),
             ESavepoint(sp1), EBody(c2), ERollbackSp(sp1),
             ECommit, ERelease>>

\* ---------------------------------------------------------------------------
\* C28  configure(partial) and the cleanup timer

\* the timers that are scheduled: created and not cleared
Scheduled(ts) == {i \in DOMAIN ts : ~ts[i].cleared}

Merged(config, partial) ==
  [k \in DOMAIN config |-> IF k \in DOMAIN partial THEN partial[k] ELSE config[k]]

\* a step of configure(partial): the keys given are merged, the others are left
\* alone, and the timer is restarted exactly when cleanupInterval is given
ConfiguredWith(partial) ==
  /\ globalConfig' = Merged(globalConfig, partial)
  /\ \A k \in DOMAIN globalConfig \ DOMAIN partial : globalConfig'[k] = globalConfig[k]
  /\ \A k \in DOMAIN partial : globalConfig'[k] = partial[k]
  /\ IF "cleanupInterval" \in DOMAIN partial
     THEN /\ Len(timers') = Len(timers) + 1
          /\ \A i \in DOMAIN timers : timers'[i].cleared
          /\ \A i \in DOMAIN timers : timers'[i].interval = timers[i].interval
          /\ ~timers'[Len(timers')].cleared
          /\ cleanupTimer' = Len(timers')
     ELSE UNCHANGED <<timers, cleanupTimer>>

\* a step that changes the configuration or creates a timer is a configure
IsConfigure == globalConfig' # globalConfig \/ Len(timers') # Len(timers)

\* a step that clears a timer and creates none is a stopCleanupTimer: after it
\* no timer is scheduled
IsStop == Len(timers') = Len(timers) /\ timers' # timers

\* the timer a configure starts runs with the interval just configured
StartedWithNewInterval ==
  Len(timers') # Len(timers) =>
    timers'[Len(timers')].interval = globalConfig'.cleanupInterval

\* the timer a configure starts runs with the interval just configured, or with
\* the five minute default when that interval is 0
StartedWithEffectiveInterval ==
  Len(timers') # Len(timers) =>
    timers'[Len(timers')].interval =
      IF globalConfig'.cleanupInterval # 0 THEN globalConfig'.cleanupInterval
      ELSE 5 * 60 * 1000

AtMostOneTimer ==
  /\ Cardinality(Scheduled(timers)) <= 1
  /\ \A i \in Scheduled(timers) : i = cleanupTimer

C28_Step ==
  /\ AtMostOneTimer => AtMostOneTimer'
  /\ IsConfigure => \E partial \in ManagerChoices : ConfiguredWith(partial)
  /\ IsStop => Scheduled(timers') = {} /\ UNCHANGED <<globalConfig, cleanupTimer>>

Internal == <<stats, globalConfig>>

\* what the callers see in the objects they were given so far
Seen == [i \in DOMAIN returned |-> Deref(i)]

\* no step changes both an object of the manager and an object that was
\* returned before the step: a caller's write stays in the caller's object, and
\* an update, a reset or a configure stays in the manager's
Separate ==
  \A i \in DOMAIN returned : Internal' # Internal => Seen'[i] = Seen[i]

\* the object a step returns holds the values the manager holds at that time;
\* for getStats, those of every key but the running sum
ReturnsCopy ==
  Len(returned') = Len(returned) + 1 =>
    LET i == Len(returned') IN
      /\ Internal' = Internal
      /\ \A j \in DOMAIN returned : Seen'[j] = Seen[j]
      /\ returned'[i].of = "stats" =>
            /\ DOMAIN Seen'[i] = DOMAIN stats \ {"_totalDuration"}
            /\ \A k \in DOMAIN Seen'[i] : Seen'[i][k] = stats[k]
      /\ returned'[i].of = "config" => Seen'[i] = globalConfig

NoRunningSum ==
  \A i \in DOMAIN returned :
    returned[i].of = "stats" => "_totalDuration" \notin DOMAIN Seen[i]

\* C29: modifying an object returned by getStats() or getConfig() never changes
\* the manager's statistics or configuration, a later update never changes an
\* object returned before, and an object returned by getStats() never has the
\* key of the internal running sum
C29_Snapshots == [][Separate /\ ReturnsCopy /\ NoRunningSum /\ NoRunningSum']_vars

\* a statistics object and a configuration object were returned and both were
\* overwritten by their callers; the manager, which holds a running sum, has
\* counted two transactions since and has its own nesting limit
C29_Witness ==
  /\ Len(returned) = 2
  /\ returned[1].of = "stats" /\ returned[1].object.totalTransactions = 99
  /\ returned[2].of = "config" /\ returned[2].object.maxNestedDepth = 99
  /\ "_totalDuration" \in DOMAIN stats
  /\ stats.totalTransactions = 2
  /\ globalConfig.maxNestedDepth = 1

\* ---------------------------------------------------------------------------
\* C30  validateDatabaseOptions

\* the embedded, file-based database types the statement names
Embedded == {"sqlite", "better-sqlite3", "capacitor"}

Has(options, k) == ~Falsy(options[k])

\* the configurations the statement accepts
Acceptable(options) ==
  /\ Has(options, "type")
  /\ options.type \notin Embedded =>
       /\ Has(options, "host") \/ Has(options, "url")
       /\ Has(options, "database") \/ Has(options, "url")

\* C30: validateDatabaseOptions accepts exactly the configurations that have a
\* type and, unless the type is an embedded one (sqlite, better-sqlite3,
\* capacitor), a host or a url and also a database or a url
C30_AcceptsExactly ==
  validation # "not called" => (validation = "returned" <=> Acceptable(dbOptions))

\* ------------------------------------------------------------------ C31
\* the real operations of a log: statements and transaction control
Operations == {"query", "commitTransaction", "rollbackTransaction"}

\* C31: on the session of every context the operations are ordered as begin,
\* then the statements of the body, then commit or rollback, then release:
\* no statement is issued on it before its begin, no statement, commit or
\* rollback is issued after its release, and no statement is issued after
\* its commit or rollback.
C31_SessionOrder ==
  \A x \in DOMAIN ctxs :
    LET log == LogOf(x)
        begins == Positions(log, {e \in Range(log) : e.op = "startTransaction"})
        ends == Positions(log, {ECommit, ERollback})
        releases == Positions(log, {ERelease})
        work == {i \in DOMAIN log : log[i].op = "query"}
    IN /\ \A i \in work : \E b \in begins : b < i
       /\ \A r \in releases : \A j \in DOMAIN log :
            (j > r) => log[j].op \notin Operations
       /\ \A e \in ends : \A i \in work : i < e

\* ------------------------------------------------------------------ C32
\* C32: once a call that created a root context is over (its commit or
\* rollback and its release have completed), the registry has no entry for
\* that context; and when every call is over the registry is empty.
C32_RegistryCleared ==
  /\ \A c \in CallIds :
       (CreatesContext(c) /\ calls[c].ctx # 0 /\ calls[c].pc = "done") =>
         calls[c].ctx \notin contexts
  /\ (\A c \in CallIds : calls[c].pc = "done") => contexts = {}

\* ------------------------------------------------------------------ C34
\* isInTransaction() as the running body of call c evaluates it
IsInTransaction(c) == calls[c].store # 0 /\ ctxs[calls[c].store].isActive

\* C34: whenever isInTransaction() is true in a running body, the transaction
\* of the current context has begun and no commit, rollback or release was
\* issued on its session.
C34_CurrentIsActive ==
  \A c \in CallIds :
    (calls[c].body = "running" /\ IsInTransaction(c)) =>
      LET log == LogOf(calls[c].store)
      IN /\ Occurrences(log, "startTransaction") = 1
         /\ Positions(log, {ECommit, ERollback, ERelease}) = {}

\* ------------------------------------------------------------------ C35
\* C35: for every registered context, depth equals the length of its
\* savepoint stack.
C35_DepthIsStackLength ==
  \A x \in contexts : ctxs[x].depth = Len(ctxs[x].savepoints)

\* ------------------------------------------------------------------ C38
\* C38: on the session of a context no SAVEPOINT statement is issued with a
\* name that is outstanding: between two SAVEPOINT statements of one name
\* there is a RELEASE SAVEPOINT or ROLLBACK TO SAVEPOINT of that name.
C38_OutstandingNamesDistinct ==
  \A x \in DOMAIN ctxs :
    LET log == LogOf(x)
    IN \A sp \in SavepointNames(log) :
         \A i, j \in Positions(log, {ESavepoint(sp)}) :
           i < j => \E k \in Positions(log, {EReleaseSp(sp), ERollbackSp(sp)}) :
                      i < k /\ k < j

\* ------------------------------------------------------------------ C39
\* the savepoint stack of the context with the given id
StackOf(cid) ==
  LET x == CHOOSE x \in DOMAIN ctxs : ctxs[x].contextId = cid
  IN Range(ctxs[x].savepoints)

\* C39: every RELEASE SAVEPOINT and ROLLBACK TO SAVEPOINT statement names a
\* savepoint that is in the savepoint stack of its context when the statement
\* is issued.
C39_NamesInStack ==
  [][\A q \in DOMAIN qrs :
       \A i \in (Len(qrs[q].log) + 1)..Len(qrs'[q].log) :
         LET e == qrs'[q].log[i]
             sp == [cid |-> e.cid, n |-> e.n]
         IN e \in {EReleaseSp(sp), ERollbackSp(sp)} => sp \in StackOf(e.cid)]_vars

\* ------------------------------------------------------------------ C37
\* a duration as the statement counts it: max(duration, 1)
Floored(duration) == IF duration >= 1 THEN duration ELSE 1

RECURSIVE SumOf(_)
SumOf(ds) == IF ds = <<>> THEN 0 ELSE Floored(Head(ds)) + SumOf(Tail(ds))

FlooredOf(ds) == {Floored(ds[i]) : i \in DOMAIN ds}

\* C37: when updateStats was called since the last resetStats (or since the
\* start), totalTransactions is the number of those calls, shortestTransaction
\* is the least and longestTransaction the greatest of their durations, each
\* counted as max(duration, 1), averageDuration is the sum of the counted
\* durations divided by totalTransactions, and shortestTransaction <=
\* averageDuration <= longestTransaction.
C37_DurationStatistics ==
  /\ stats.totalTransactions = Len(recorded)
  /\ recorded # <<>> =>
       LET ds == FlooredOf(recorded)
           average == stats.averageDuration
       IN /\ stats.shortestTransaction \in ds
          /\ \A d \in ds : stats.shortestTransaction <= d
          /\ stats.longestTransaction \in ds
          /\ \A d \in ds : d <= stats.longestTransaction
          /\ average.num * Len(recorded) = SumOf(recorded) * average.den
          /\ average.den > 0
          /\ stats.shortestTransaction * average.den <= average.num
          /\ average.num <= stats.longestTransaction * average.den

\* durations of 0, 5 and 2 ms were recorded: the first is counted as 1, the
\* average of 8/3 is no whole number
C37_Witness ==
  /\ recorded = <<0, 5, 2>>
  /\ stats.shortestTransaction = 1
  /\ stats.longestTransaction = 5
  /\ stats.averageDuration = [num |-> 8, den |-> 3]

\* ------------------------------------------------------------------ C36
\* call c of the next state is a NESTED call that is made in this step
NestedCallMade(c) ==
  /\ c > Len(calls)
  /\ calls'[c].options.propagation = "NESTED"
  /\ calls'[c].cur # 0

\* ... and it fails at once with the nesting-limit error: no statement is
\* issued, no savepoint stack changes, its body does not run
FailsAtTheLimit(c) ==
  /\ calls'[c].pc = "done"
  /\ calls'[c].outcome = "threw"
  /\ calls'[c].err = NestingError(globalConfig.maxNestedDepth)
  /\ calls'[c].runs = 0
  /\ qrs' = qrs
  /\ ctxs' = ctxs

\* a call that failed with the nesting-limit error never ran its body
LimitIsFinal ==
  \A c \in CallIds :
    calls[c].err.kind = "nesting depth exceeded" =>
      calls[c].pc = "done" /\ calls[c].runs = 0 /\ calls[c].sp = NoSavepoint

\* C36 as stated: a NESTED call whose current context has depth >=
\* maxNestedDepth fails with the nesting-limit error before anything else
\* happens: no SAVEPOINT is issued, the savepoint stack is unchanged and the
\* body is not executed.
C36_LimitRejects ==
  [][LimitIsFinal /\
     \A c \in 1..Len(calls') :
       (NestedCallMade(c) /\ ctxs[calls'[c].cur].depth >= globalConfig.maxNestedDepth)
         => FailsAtTheLimit(c)]_vars

\* what the check does: the same for every maxNestedDepth other than 0; with
\* maxNestedDepth 0 no NESTED call fails with the nesting-limit error.
C36_NonZeroLimitRejects ==
  [][LimitIsFinal /\
     \A c \in 1..Len(calls') :
       NestedCallMade(c) =>
         IF /\ globalConfig.maxNestedDepth # 0
            /\ ctxs[calls'[c].cur].depth >= globalConfig.maxNestedDepth
         THEN FailsAtTheLimit(c)
         ELSE calls'[c].err.kind # "nesting depth exceeded"]_vars

\* the limit is reached: a NESTED call made under a context of depth 1 (a
\* REQUIRES_NEW transaction inside a REQUIRED one) with maxNestedDepth 1 has
\* failed with the nesting-limit error
C36_LimitReached ==
  \E c \in CallIds :
    /\ calls[c].options.propagation = "NESTED"
    /\ calls[c].cur # 0
    /\ ctxs[calls[c].cur].depth = 1
    /\ globalConfig.maxNestedDepth = 1
    /\ calls[c].err = NestingError(1)
    /\ calls[c].pc = "done"

\* ------------------------------------------------------------------ C33
\* now minus startTime
Age(x) == now - ctxs[x].startTime

\* a step of the scan that finds something to remove: the only steps that
\* shrink the registry while no call moves
IsScan == calls' = calls /\ contexts' # contexts

\* the scan removes exactly the registered contexts older than limit; on the
\* session of each of them that is not released a transaction is active and
\* rollbackTransaction() is called, with a chain that waits for it; every
\* other session is left as it is; no call and no failure count changes
ScanReclaims(limit) ==
  LET expired == {x \in contexts : Age(x) > limit}
  IN /\ contexts' = contexts \ expired
     /\ \A x \in contexts :
          LET q == ctxs[x].queryRunner
          IN IF x \in expired /\ ~qrs[q].isReleased
             THEN /\ qrs[q].isTransactionActive
                  /\ qrs'[q] = [qrs[q] EXCEPT !.log = Append(@, ERollback)]
                  /\ \E r \in DOMAIN reclaims' \ DOMAIN reclaims :
                       reclaims'[r] = [queryRunner |-> q, pc |-> "rollback"]
             ELSE qrs'[q] = qrs[q]
     /\ Len(reclaims') =
          Len(reclaims)
            + Cardinality({x \in expired : ~qrs[ctxs[x].queryRunner].isReleased})
     /\ calls' = calls
     /\ faults' = faults

\* when the rollback of a chain settles, resolved or rejected, release() is
\* called on its session; no step of a chain changes a call, a context, the
\* registry or another chain
ChainReleases ==
  \A r \in DOMAIN reclaims :
    reclaims'[r] # reclaims[r] =>
      /\ calls' = calls /\ ctxs' = ctxs /\ contexts' = contexts
      /\ \A o \in DOMAIN reclaims \ {r} : reclaims'[o] = reclaims[o]
      /\ reclaims[r].pc = "rollback" =>
           LET q == reclaims[r].queryRunner
           IN /\ reclaims'[r].pc = "release"
              /\ qrs'[q].isReleased
              /\ qrs'[q].log = Append(qrs[q].log, ERelease)
      /\ reclaims[r].pc = "release" => reclaims'[r].pc = "done" /\ qrs' = qrs

C40_ReleasedOnceInTotal ==
  \A q \in DOMAIN qrs : Occurrences(qrs[q].log, "release") <= 1

====
